---- MODULE Spec2Model ----
(***************************************************************************)
(* A model of cyrus' quality scoring engine (src/commands/quality.ts,      *)
(* src/commands/health.ts) and of its language detector                    *)
(* (src/analyzers/language-detector.ts).                                   *)
(*                                                                         *)
(* JavaScript numbers are modelled as exact rationals plus NaN: a number   *)
(* is a record [nan, num, den] in lowest terms; den = 0 is +Infinity.     *)
(***************************************************************************)
EXTENDS Integers, Sequences, FiniteSets, TLC

VARIABLES
  \* ---- calculateFileScore applied to one AnalysisResult
  scoreInput, scoreOutput,
  \* ---- QualityCommand.analyzeQuality
  qpc, target, options, files, filesToAnalyze, idx, fileQualities,
  totalLines, totalIssues, totalComplexity, averageScore, codeHealth,
  maintainability, complexity, testCoverage, documentation, security,
  aiCall, recommendations, result, thrown,
  \* ---- LanguageDetector.detectLanguage applied to one path and content
  filePath, content, detection,
  \* ---- LanguageDetector.detectProjectLanguages
  project, ppc, pending, languageCounts, totalFiles, allFrameworks,
  allTestFrameworks, packageManagers, buildTools, profile, projectThrown,
  \* ---- CodeAnalyzer.calculateMetrics applied to one content
  metricsInput, metricsOutput,
  \* ---- CodeAnalyzer.findDuplicateLines applied to the lines of one content
  duplicatesInput, duplicatesOutput,
  \* ---- AIService.analyzeCode, its timers and the clock
  aiProvider, aiConfigLoads, apc, clock, probeTimer, generationTimer,
  caught, aiOutcome,
  \* ---- HealthCommand.handle and analyzeFiles
  hconfig, hoptions, globbed, hpc, hintPrinted, discoverCalled, healthFiles,
  batchStart, promises, analyses,
  \* ---- HealthCommand.generateRecommendations applied to one list of analyses
  fileAnalyses, healthRecommendations

scoreVars == <<scoreInput, scoreOutput>>
qualityVars == <<qpc, target, options, files, filesToAnalyze, idx,
                 fileQualities, totalLines, totalIssues, totalComplexity,
                 averageScore, codeHealth, maintainability, complexity,
                 testCoverage, documentation, security, aiCall,
                 recommendations, result, thrown>>
detectVars == <<filePath, content, detection>>
projectVars == <<project, ppc, pending, languageCounts, totalFiles,
                 allFrameworks, allTestFrameworks, packageManagers,
                 buildTools, profile, projectThrown>>
metricsVars == <<metricsInput, metricsOutput>>
duplicatesVars == <<duplicatesInput, duplicatesOutput>>
aiVars == <<aiProvider, aiConfigLoads, apc, clock, probeTimer,
            generationTimer, caught, aiOutcome>>
healthVars == <<hconfig, hoptions, globbed, hpc, hintPrinted,
                discoverCalled, healthFiles, batchStart, promises, analyses>>
recommendVars == <<fileAnalyses, healthRecommendations>>
vars == <<scoreVars, qualityVars, detectVars, projectVars, metricsVars,
          duplicatesVars, aiVars, healthVars, recommendVars>>

otherThanScore == <<qualityVars, detectVars, projectVars, metricsVars,
                    duplicatesVars, aiVars, healthVars, recommendVars>>
otherThanQuality == <<scoreVars, detectVars, projectVars, metricsVars,
                      duplicatesVars, aiVars, healthVars, recommendVars>>
otherThanDetect == <<scoreVars, qualityVars, projectVars, metricsVars,
                     duplicatesVars, aiVars, healthVars, recommendVars>>
otherThanProject == <<scoreVars, qualityVars, detectVars, metricsVars,
                      duplicatesVars, aiVars, healthVars, recommendVars>>
otherThanMetrics == <<scoreVars, qualityVars, detectVars, projectVars,
                      duplicatesVars, aiVars, healthVars, recommendVars>>
otherThanDuplicates == <<scoreVars, qualityVars, detectVars, projectVars,
                         metricsVars, aiVars, healthVars, recommendVars>>
otherThanAI == <<scoreVars, qualityVars, detectVars, projectVars,
                 metricsVars, duplicatesVars, healthVars, recommendVars>>
otherThanHealth == <<scoreVars, qualityVars, detectVars, projectVars,
                     metricsVars, duplicatesVars, aiVars, recommendVars>>
otherThanRecommend == <<scoreVars, qualityVars, detectVars, projectVars,
                        metricsVars, duplicatesVars, aiVars, healthVars>>

(***************************************************************************)
(* JavaScript numbers                                                      *)
(***************************************************************************)
Abs(n) == IF n < 0 THEN -n ELSE n

RECURSIVE GCD(_, _)
GCD(a, b) == IF b = 0 THEN a ELSE GCD(b, a % b)

NaN == [nan |-> TRUE, num |-> 0, den |-> 1]

\* n / d as a JavaScript number, in lowest terms
Frac(n, d) ==
  LET g == GCD(Abs(n), d)
  IN  [nan |-> FALSE, num |-> n \div g, den |-> d \div g]

Num(n) == Frac(n, 1)

\* n / d on non-negative integers: 0/0 is NaN and n/0 (n > 0) is +Infinity,
\* which is the record with den = 0 (the comparisons below order it last)
Div(n, d) == IF n = 0 /\ d = 0 THEN NaN ELSE Frac(n, d)

IsNum(x) == ~x.nan

Add(x, y) ==
  IF x.nan \/ y.nan THEN NaN
  ELSE Frac(x.num * y.den + y.num * x.den, x.den * y.den)

\* x * (p / q) for a literal p/q
Scale(x, p, q) == IF x.nan THEN NaN ELSE Frac(x.num * p, x.den * q)

\* x < y and x <= y: false when either side is NaN
Lt(x, y) == ~x.nan /\ ~y.nan /\ x.num * y.den < y.num * x.den
Le(x, y) == ~x.nan /\ ~y.nan /\ x.num * y.den <= y.num * x.den

\* Math.max / Math.min: NaN if either argument is NaN
MathMax(x, y) == IF x.nan \/ y.nan THEN NaN ELSE IF Lt(x, y) THEN y ELSE x
MathMin(x, y) == IF x.nan \/ y.nan THEN NaN ELSE IF Lt(y, x) THEN y ELSE x

\* Math.round: floor(x + 1/2); NaN stays NaN
MathRound(x) ==
  IF x.nan THEN NaN ELSE Num((2 * x.num + x.den) \div (2 * x.den))

(***************************************************************************)
(* AnalysisResult values (types: AnalysisResult, CodeMetrics).             *)
(* diagnostics is the length of the diagnostics list; metrics may be       *)
(* absent.  maintainabilityIndex is NaN for a file with no non-empty line. *)
(***************************************************************************)
NoMetrics == [complexity |-> 0, maintainabilityIndex |-> NaN, linesOfCode |-> 0]

AnalysisOf(d, hasM, c, mi, loc) ==
  [diagnostics |-> d, hasMetrics |-> hasM,
   metrics |-> IF hasM
               THEN [complexity |-> c, maintainabilityIndex |-> mi,
                     linesOfCode |-> loc]
               ELSE NoMetrics]

(***************************************************************************)
(* QualityCommand.calculateFileScore                                       *)
(***************************************************************************)
calculateFileScoreBothBands(r) ==
  LET s1 == 100 - r.diagnostics * 5
      m  == r.metrics
      s2 == IF r.hasMetrics
            THEN s1 - (IF m.complexity > 20 THEN 20 ELSE 0)
                    - (IF m.complexity > 10 THEN 10 ELSE 0)
            ELSE s1
      s3 == IF r.hasMetrics
            THEN s2 - (IF Lt(m.maintainabilityIndex, Num(50)) THEN 15 ELSE 0)
                    - (IF Lt(m.maintainabilityIndex, Num(70)) THEN 5 ELSE 0)
            ELSE s2
  IN  IF s3 < 0 THEN 0 ELSE IF s3 > 100 THEN 100 ELSE s3

calculateFileScore(r) ==
  LET s1 == 100 - r.diagnostics * 5
      m  == r.metrics
      s2 == IF r.hasMetrics
            THEN IF m.complexity > 20 THEN s1 - 20
                 ELSE IF m.complexity > 10 THEN s1 - 10
                 ELSE s1
            ELSE s1
      s3 == IF r.hasMetrics
            THEN IF Lt(m.maintainabilityIndex, Num(50)) THEN s2 - 15
                 ELSE IF Lt(m.maintainabilityIndex, Num(70)) THEN s2 - 5
                 ELSE s2
            ELSE s2
      lo == IF 100 < s3 THEN 100 ELSE s3      \* Math.min(100, score)
  IN  IF lo < 0 THEN 0 ELSE lo                \* Math.max(0, .)

(***************************************************************************)
(* The score of one AnalysisResult: inputs and the step that scores them   *)
(***************************************************************************)
MaxDiagnostics == 22

ComplexityValues == {1, 10, 11, 20, 21, 30}

MaintainabilityValues ==
  {NaN, Num(0), Num(49), Frac(99, 2), Num(50), Num(69), Frac(699, 10),
   Num(70), Num(100)}

ScoreInputs ==
  {AnalysisOf(d, FALSE, 0, NaN, 0) : d \in 0..MaxDiagnostics}
  \cup {AnalysisOf(d, TRUE, c, mi, 10) :
          d \in 0..MaxDiagnostics, c \in ComplexityValues,
          mi \in MaintainabilityValues}

NotScored == [done |-> FALSE, score |-> 0]

ScoreInit ==
  /\ scoreInput \in ScoreInputs
  /\ scoreOutput = NotScored

ScoreFile ==
  /\ ~scoreOutput.done
  /\ scoreOutput' = [done |-> TRUE, score |-> calculateFileScore(scoreInput)]
  /\ UNCHANGED scoreInput
  /\ UNCHANGED otherThanScore

(***************************************************************************)
(* Text returned by the AI collaborator, line by line.  A line is its      *)
(* leading spaces, an optional list marker, the spaces after the marker    *)
(* and the rest.                                                           *)
(***************************************************************************)
Plain(body) == [indent |-> 0, marker |-> "", gap |-> 0, body |-> body]
Item(ind, mark, body) == [indent |-> ind, marker |-> mark, gap |-> 1, body |-> body]

LineLength(l) == l.indent + Len(l.marker) + l.gap + Len(l.body)

\* line.trim().startsWith("•") || ...startsWith("-") || ...startsWith("*");
\* the marker "o" stands for the bullet character
IsListLine(l) == l.marker \in {"o", "-", "*"}

\* line.replace(/^[•\-*]\s*/, ""): anchored at the start of the untrimmed line
StripMarker(l) ==
  IF l.indent = 0 /\ IsListLine(l) THEN Plain(l.body) ELSE l

MinRecommendationLength == 10

ParseRecommendations(text) ==
  LET listed   == SelectSeq(text, IsListLine)
      stripped == [k \in 1..Len(listed) |-> StripMarker(listed[k])]
      Long(l)  == LineLength(l) > MinRecommendationLength
  IN  SelectSeq(stripped, Long)

FallbackRecommendations ==
  << Plain("Address code issues to improve overall health"),
     Plain("Reduce complexity in high-complexity functions"),
     Plain("Add more comprehensive test coverage"),
     Plain("Improve code documentation"),
     Plain("Review security practices") >>

\* the mock analysis AIService.analyzeCode returns for an unreachable local
\* provider (filePath is "quality-analysis" here)
MockAnalysis ==
  << Plain("Code Analysis for quality-analysis:"),
     Plain(""),
     Plain("1. Code Quality: The code appears to be well-structured."),
     Plain("2. Potential Issues: Found console.log statement that should be replaced with proper logging."),
     Plain("3. Best Practices: Consider adding more type annotations for better type safety."),
     Plain("4. Performance: No major performance concerns detected."),
     Plain("5. Security: No obvious security vulnerabilities found."),
     Plain(""),
     Plain("Note: This is a mock analysis. Please ensure your AI service is running at http://localhost:11434/v1") >>

(***************************************************************************)
(* AIService.analyzeCode, as its caller sees it.  The behaviour of the     *)
(* collaborators is the record b: whether the configuration loads, the     *)
(* provider's name, whether the availability probe of a local provider     *)
(* answers, and how generateText ends.                                     *)
(***************************************************************************)
LocalProviders == {"ollama", "lmstudio", "local"}

Returned(text) == [threw |-> FALSE, error |-> "", text |-> text]
Threw(name)    == [threw |-> TRUE, error |-> name, text |-> <<>>]

analyzeCode(b) ==
  IF ~b.configOk THEN Threw("ConfigurationError")         \* ensureConfig
  ELSE IF b.provider \in LocalProviders /\ ~b.probeOk
       THEN Returned(MockAnalysis)                         \* fetch failed or aborted
  ELSE IF b.generate.kind = "text" THEN Returned(b.generate.text)
  ELSE IF b.generate.kind = "abort" THEN Threw("TimeoutError")
  ELSE Threw("AIServiceError")                             \* handleAIError

(***************************************************************************)
(* QualityCommand.generateRecommendations                                  *)
(***************************************************************************)
generateRecommendations(b) ==
  LET r == analyzeCode(b)
  IN  IF r.threw THEN FallbackRecommendations ELSE ParseRecommendations(r.text)

(***************************************************************************)
(* The files analyzeQuality meets.  A file is a record:                    *)
(*   name      "plain"; "testNamed" when its path contains "test" or       *)
(*             "spec"; "dotTest" when it also matches                      *)
(*             **/*.{test,spec}.{ts,js,tsx,jsx}                            *)
(*   supported whether LanguageDetector.isSupported holds of its path      *)
(*   readable  whether fs.readFileSync succeeds                            *)
(*   analysis  what CodeAnalyzer.analyzeFile does with it: ok = FALSE      *)
(*             when it throws, else the AnalysisResult                     *)
(*   occ       how often each text the security check looks for occurs     *)
(***************************************************************************)
SecurityTexts ==
  {"eval(", "innerHTML", "password", "=", "api_key", "secret", "http://",
   "localhost"}

Content(f) == [x \in SecurityTexts |-> IF x \in DOMAIN f THEN f[x] ELSE 0]

NoContent == [x \in SecurityTexts |-> 0]

AnalysisFails == [ok |-> FALSE, result |-> AnalysisOf(0, FALSE, 0, NaN, 0)]
AnalysisGives(r) == [ok |-> TRUE, result |-> r]

QualityFileKinds ==
  { \* a small clean source file
    [name |-> "plain", supported |-> TRUE,
     readable |-> TRUE,
     analysis |-> AnalysisGives(AnalysisOf(0, TRUE, 3, Num(90), 40)),
     occ |-> NoContent],
    \* a source file with diagnostics, one eval( and one http:// link
    [name |-> "plain", supported |-> TRUE,
     readable |-> TRUE,
     analysis |-> AnalysisGives(AnalysisOf(4, TRUE, 15, Num(60), 50)),
     occ |-> Content("eval(" :> 1 @@ "http://" :> 1)],
    \* a complex test helper with many diagnostics and a hardcoded secret
    [name |-> "testNamed", supported |-> TRUE,
     readable |-> TRUE,
     analysis |-> AnalysisGives(AnalysisOf(25, TRUE, 25, Num(40), 60)),
     occ |-> Content("password" :> 1 @@ "=" :> 3 @@ "secret" :> 2 @@ "eval(" :> 2)],
    \* a file that cannot be read
    [name |-> "plain", supported |-> TRUE,
     readable |-> FALSE,
     analysis |-> AnalysisFails,
     occ |-> NoContent],
    \* a readable *.spec.ts file with no non-empty line
    [name |-> "dotTest", supported |-> TRUE,
     readable |-> TRUE,
     analysis |-> AnalysisGives(AnalysisOf(0, TRUE, 1, NaN, 0)),
     occ |-> NoContent],
    \* a readable .c file: globbed, but no language is detected for it
    [name |-> "testNamed", supported |-> FALSE,
     readable |-> TRUE,
     analysis |-> AnalysisFails,
     occ |-> Content("http://" :> 1 @@ "localhost" :> 1)] }

MaxFiles == 3
MaxExtraTests == 1
MaxOptionFiles == 2

FileLists == UNION {[1..n -> QualityFileKinds] : n \in 0..MaxFiles}

\* what calculateDocumentationScore finds under the target
DocLayouts ==
  { [readme |-> FALSE, pkgDescription |-> FALSE, docs |-> FALSE],
    [readme |-> TRUE,  pkgDescription |-> FALSE, docs |-> TRUE],
    [readme |-> TRUE,  pkgDescription |-> TRUE,  docs |-> TRUE] }

NoDocs == [readme |-> FALSE, pkgDescription |-> FALSE, docs |-> FALSE]

(***************************************************************************)
(* The target of `cyrus quality`: a directory with the files the glob      *)
(* finds in it (glob), the test files the coverage glob finds in dist/ or  *)
(* build/ beyond those (extraTests) and its documentation; or one file; or *)
(* a path that does not exist.                                             *)
(***************************************************************************)
Targets ==
  {[kind |-> "directory", glob |-> g, extraTests |-> x, layout |-> l] :
      g \in FileLists, x \in 0..MaxExtraTests, l \in DocLayouts}
  \cup {[kind |-> "file", glob |-> <<f>>, extraTests |-> 0, layout |-> NoDocs] :
      f \in QualityFileKinds}
  \cup {[kind |-> "missing", glob |-> <<>>, extraTests |-> 0, layout |-> NoDocs]}

RECURSIVE SumOver(_, _)
SumOver(seq, field) ==
  IF seq = <<>> THEN 0 ELSE seq[1][field] + SumOver(Tail(seq), field)

\* files.slice(0, n)
Slice(seq, n) == SubSeq(seq, 1, IF n < Len(seq) THEN n ELSE Len(seq))

DefaultMaxFiles == 50
SecuritySampleSize == 10

(***************************************************************************)
(* QualityCommand: the sub-scores                                          *)
(***************************************************************************)
\* f.metrics?.complexity || 0
ComplexityOrZero(q) == IF q.hasMetrics THEN q.metrics.complexity ELSE 0

RECURSIVE SumComplexity(_)
SumComplexity(qs) ==
  IF qs = <<>> THEN 0 ELSE ComplexityOrZero(qs[1]) + SumComplexity(Tail(qs))

calculateMaintainability(qs) ==
  LET avgComplexity == Div(SumComplexity(qs), Len(qs))
  IN  IF Le(avgComplexity, Num(5)) THEN 100
      ELSE IF Le(avgComplexity, Num(10)) THEN 80
      ELSE IF Le(avgComplexity, Num(20)) THEN 60
      ELSE 40

calculateComplexityScore(tc, tl) ==
  IF tl = 0 THEN 100
  ELSE LET complexityRatio == Div(tc, tl)
       IN  IF Le(complexityRatio, Frac(1, 10)) THEN 100
           ELSE IF Le(complexityRatio, Frac(2, 10)) THEN 80
           ELSE IF Le(complexityRatio, Frac(3, 10)) THEN 60
           ELSE 40

IsDotTest(f) == f.name = "dotTest"
IsSource(f)  == f.name = "plain"

estimateTestCoverage(t, fs) ==
  IF t.kind # "directory" THEN Num(50)
  ELSE LET testFiles   == Len(SelectSeq(fs, IsDotTest)) + t.extraTests
           sourceFiles == Len(SelectSeq(fs, IsSource))
           coverage    == MathMin(Num(100),
                                  Scale(Div(testFiles, sourceFiles), 100, 1))
       IN  MathRound(coverage)

calculateDocumentationScore(t) ==
  LET score == (IF t.layout.readme THEN 40 ELSE 0)
               + (IF t.layout.pkgDescription THEN 30 ELSE 0)
               + (IF t.layout.docs THEN 30 ELSE 0)
  IN  IF score > 100 THEN 100 ELSE score

\* the security issues counted in one file: four independent checks
SecurityIssuesIn(f) ==
  IF ~f.readable THEN 0
  ELSE (IF f.occ["eval("] > 0 \/ f.occ["innerHTML"] > 0 THEN 1 ELSE 0)
       + (IF f.occ["password"] > 0 /\ f.occ["="] > 0 THEN 1 ELSE 0)
       + (IF f.occ["api_key"] > 0 \/ f.occ["secret"] > 0 THEN 1 ELSE 0)
       + (IF f.occ["http://"] > 0 /\ f.occ["localhost"] = 0 THEN 1 ELSE 0)

RECURSIVE SecurityIssues(_)
SecurityIssues(fs) ==
  IF fs = <<>> THEN 0 ELSE SecurityIssuesIn(fs[1]) + SecurityIssues(Tail(fs))

calculateSecurityScore(fs) ==
  LET score == 100 - SecurityIssues(fs) * 15
  IN  IF score < 0 THEN 0 ELSE score

(***************************************************************************)
(* fileQualities.sort((a, b) => a.score - b.score): a stable sort          *)
(***************************************************************************)
RECURSIVE InsertByScore(_, _)
InsertByScore(sorted, q) ==
  IF sorted = <<>> THEN <<q>>
  ELSE IF q.score - sorted[1].score < 0 THEN <<q>> \o sorted
  ELSE <<sorted[1]>> \o InsertByScore(Tail(sorted), q)

RECURSIVE SortDescending(_)
SortDescending(qs) ==
  IF qs = <<>> THEN <<>>
  ELSE LET rest == SortDescending(Tail(qs))
           before == SelectSeq(rest, LAMBDA r : r.score > qs[1].score)
           after  == SelectSeq(rest, LAMBDA r : r.score <= qs[1].score)
       IN  before \o <<qs[1]>> \o after

RECURSIVE SortByScoreFrom(_, _)
SortByScoreFrom(sorted, qs) ==
  IF qs = <<>> THEN sorted
  ELSE SortByScoreFrom(InsertByScore(sorted, qs[1]), Tail(qs))

SortByScore(qs) == SortByScoreFrom(<<>>, qs)

(***************************************************************************)
(* The weighted overall score (quality.ts, the result literal)             *)
(***************************************************************************)
WeightedSum(avg, ch, ma, co, tc, doc, sec) ==
  Add(Scale(avg, 30, 100),
  Add(Scale(ch, 20, 100),
  Add(Scale(Num(ma), 15, 100),
  Add(Scale(Num(co), 15, 100),
  Add(Scale(tc, 10, 100),
  Add(Scale(Num(doc), 5, 100),
      Scale(Num(sec), 5, 100)))))))

overallScoreTruncated(avg, ch, ma, co, tc, doc, sec) ==
  LET w == WeightedSum(avg, ch, ma, co, tc, doc, sec)
  IN  IF w.nan THEN NaN ELSE Num(w.num \div w.den)

overallScoreOf(avg, ch, ma, co, tc, doc, sec) ==
  MathRound(WeightedSum(avg, ch, ma, co, tc, doc, sec))

(***************************************************************************)
(* How the AI collaborator may behave during one analyzeCode call          *)
(***************************************************************************)
ListedAdvice ==
  << Plain("Here is what I would do:"),
     Item(0, "-", "Add unit tests for the parser module"),
     Item(0, "*", "Fix lint"),
     Item(2, "o", "Document"),
     Plain("1. Numbered advice is not a list line") >>

ProseAdvice == << Plain("The code base is in reasonable shape overall.") >>

GenerateOutcomes ==
  { [kind |-> "text",  text |-> ListedAdvice],
    [kind |-> "text",  text |-> ProseAdvice],
    [kind |-> "abort", text |-> <<>>],
    [kind |-> "error", text |-> <<>>] }

AIBehaviours ==
  {[configOk |-> TRUE, provider |-> "openai", probeOk |-> TRUE, generate |-> g] :
      g \in GenerateOutcomes}
  \cup {[configOk |-> TRUE, provider |-> "ollama", probeOk |-> ok,
         generate |-> [kind |-> "text", text |-> ListedAdvice]] : ok \in BOOLEAN}
  \cup {[configOk |-> FALSE, provider |-> "openai", probeOk |-> TRUE,
         generate |-> [kind |-> "error", text |-> <<>>]]}

NoCall == [configOk |-> TRUE, provider |-> "", probeOk |-> TRUE,
           generate |-> [kind |-> "none", text |-> <<>>]]

(***************************************************************************)
(* QualityCommand.analyzeQuality                                           *)
(***************************************************************************)
NoReport ==
  [overallScore |-> NaN, codeHealth |-> NaN, maintainability |-> 0,
   complexity |-> 0, testCoverage |-> NaN, documentation |-> 0,
   security |-> 0, recommendations |-> <<>>, files |-> <<>>]

QualityInit ==
  /\ target \in Targets
  /\ options \in [maxFiles : 0..MaxOptionFiles]
  /\ qpc = "scan"
  /\ files = <<>>
  /\ filesToAnalyze = <<>>
  /\ idx = 0
  /\ fileQualities = <<>>
  /\ totalLines = 0
  /\ totalIssues = 0
  /\ totalComplexity = 0
  /\ averageScore = NaN
  /\ codeHealth = NaN
  /\ maintainability = 0
  /\ complexity = 0
  /\ testCoverage = NaN
  /\ documentation = 0
  /\ security = 0
  /\ aiCall = NoCall
  /\ recommendations = <<>>
  /\ result = NoReport
  /\ thrown = ""

NoFilesFoundIgnored(found) == FALSE

\* files.length === 0
NoFilesFound(found) == Len(found) = 0

\* glob / validateFileExists / isSupported, the empty check and the slice
ScanFiles ==
  /\ qpc = "scan"
  /\ LET found == IF target.kind \in {"directory", "file"}
                  THEN target.glob ELSE <<>>
         \* each discovered file is known by its place in the glob's answer
         named == [k \in 1..Len(found) |-> [path |-> k, file |-> found[k]]]
         limit == IF options.maxFiles # 0 THEN options.maxFiles
                  ELSE DefaultMaxFiles
     IN  IF target.kind = "missing"
         THEN /\ thrown' = "FileSystemError"
              /\ qpc' = "threw"
              /\ UNCHANGED <<files, filesToAnalyze, idx>>
         ELSE IF (target.kind = "file" /\ ~found[1].supported)
                 \/ NoFilesFound(found)
         THEN /\ thrown' = "AnalysisError"
              /\ qpc' = "threw"
              /\ files' = named
              /\ UNCHANGED <<filesToAnalyze, idx>>
         ELSE /\ files' = named
              /\ filesToAnalyze' = Slice(named, limit)
              /\ idx' = 1
              /\ qpc' = "analyze"
              /\ UNCHANGED thrown
  /\ UNCHANGED <<target, options, fileQualities, totalLines, totalIssues,
                 totalComplexity, averageScore, codeHealth, maintainability,
                 complexity, testCoverage, documentation, security, aiCall,
                 recommendations, result>>
  /\ UNCHANGED otherThanQuality

\* one iteration of the analysis loop: the try block and its empty catch
AnalyzeOneFile ==
  /\ qpc = "analyze"
  /\ idx <= Len(filesToAnalyze)
  /\ LET entry == filesToAnalyze[idx]
         a     == entry.file.analysis
         r     == a.result
     IN  IF a.ok
         THEN /\ fileQualities' = Append(fileQualities,
                   [path |-> entry.path, score |-> calculateFileScore(r),
                    issues |-> r.diagnostics, hasMetrics |-> r.hasMetrics,
                    metrics |-> r.metrics])
              /\ totalLines' = totalLines
                   + (IF r.hasMetrics THEN r.metrics.linesOfCode ELSE 0)
              /\ totalComplexity' = totalComplexity
                   + (IF r.hasMetrics THEN r.metrics.complexity ELSE 0)
              /\ totalIssues' = totalIssues + r.diagnostics
         ELSE UNCHANGED <<fileQualities, totalLines, totalComplexity,
                          totalIssues>>
  /\ idx' = idx + 1
  /\ UNCHANGED <<qpc, target, options, files, filesToAnalyze, averageScore,
                 codeHealth, maintainability, complexity, testCoverage,
                 documentation, security, aiCall, recommendations, result,
                 thrown>>
  /\ UNCHANGED otherThanQuality

\* Math.max(0, 100 - (totalIssues / files.length) * 10)
codeHealthOf(issues, fileCount) ==
  MathMax(Num(0), Add(Num(100), Scale(Div(issues, fileCount), -10, 1)))

\* the overall metrics, from averageScore to security
Summarize ==
  /\ qpc = "analyze"
  /\ idx > Len(filesToAnalyze)
  /\ averageScore' = Div(SumOver(fileQualities, "score"), Len(fileQualities))
  /\ codeHealth' = codeHealthOf(totalIssues, Len(files))
  /\ maintainability' = calculateMaintainability(fileQualities)
  /\ complexity' = calculateComplexityScore(totalComplexity, totalLines)
  /\ testCoverage' =
       estimateTestCoverage(target, [k \in 1..Len(files) |-> files[k].file])
  /\ documentation' = calculateDocumentationScore(target)
  /\ security' =
       calculateSecurityScore(
         [k \in 1..Len(Slice(files, SecuritySampleSize)) |-> files[k].file])
  /\ qpc' = "recommend"
  /\ UNCHANGED <<target, options, files, filesToAnalyze, idx, fileQualities,
                 totalLines, totalIssues, totalComplexity, aiCall,
                 recommendations, result, thrown>>
  /\ UNCHANGED otherThanQuality

\* generateRecommendations, then the result literal with its in-place sort
Recommend ==
  /\ qpc = "recommend"
  /\ \E b \in AIBehaviours :
       /\ aiCall' = b
       /\ recommendations' = generateRecommendations(b)
  /\ fileQualities' = SortByScore(fileQualities)
  /\ result' =
       [overallScore |-> overallScoreOf(averageScore, codeHealth,
                           maintainability, complexity, testCoverage,
                           documentation, security),
        codeHealth |-> codeHealth, maintainability |-> maintainability,
        complexity |-> complexity, testCoverage |-> testCoverage,
        documentation |-> documentation, security |-> security,
        recommendations |-> recommendations', files |-> fileQualities']
  /\ qpc' = "done"
  /\ UNCHANGED <<target, options, files, filesToAnalyze, idx, totalLines,
                 totalIssues, totalComplexity, averageScore, codeHealth,
                 maintainability, complexity, testCoverage, documentation,
                 security, thrown>>
  /\ UNCHANGED otherThanQuality

(***************************************************************************)
(* LanguageDetector: the tables.  A regular expression is named by its     *)
(* source text; groups is the number of capture groups in it.              *)
(***************************************************************************)
Re(source, groups) == [re |-> source, groups |-> groups]

\* LANGUAGE_PATTERNS; Languages below keeps the order of its keys
LANGUAGE_PATTERNS ==
  "javascript" :>
    << Re("require\\s*\\(", 0),
       Re("module\\.exports", 0),
       Re("export\\s+(default\\s+)?", 1),
       Re("import\\s+(?:\\S.*)?from", 0),
       Re("console\\.(log|error|warn)", 1),
       Re("\\bconst\\s+\\w+\\s*=", 0),
       Re("\\blet\\s+\\w+\\s*=", 0),
       Re("\\bvar\\s+\\w+\\s*=", 0),
       Re("=>\\s*\\{", 0),
       Re("\\.then\\s*\\(", 0),
       Re("async\\s+(function|\\()", 1) >> @@
  "typescript" :>
    << Re("interface\\s+\\w+", 0),
       Re("type\\s+\\w+\\s*=", 0),
       Re(":\\s*\\w+(\\[\\]|<.*>)?", 1),
       Re("as\\s+\\w+", 0),
       Re("enum\\s+\\w+", 0),
       Re("namespace\\s+\\w+", 0),
       Re("declare\\s+(module|namespace)", 1),
       Re("<\\w+(?:,\\s*\\w+)*>", 0),
       Re("readonly\\s+\\w+", 0),
       Re("public\\s+\\w+", 0),
       Re("private\\s+\\w+", 0),
       Re("protected\\s+\\w+", 0) >> @@
  "python" :>
    << Re("def\\s+\\w+\\s*\\(", 0),
       Re("class\\s+\\w+", 0),
       Re("import\\s+\\w+", 0),
       Re("from\\s+\\w+\\s+import", 0),
       Re("__init__\\s*\\(", 0),
       Re("if\\s+__name__\\s*==\\s*[\"']__main__[\"']", 0),
       Re("\\bself\\.", 0),
       Re("@\\w+[\\t\\v\\f\\r \\xA0\\u1680\\u2000-\\u200A\\u2028\\u2029\\u202F\\u205F\\u3000\\uFEFF]*\\n\\s*def", 0),
       Re("\\bprint\\s*\\(", 0),
       Re("\\blambda\\s+", 0),
       Re("\\bawait\\s+", 0),
       Re("\\basync\\s+def", 0) >> @@
  "java" :>
    << Re("public\\s+class\\s+\\w+", 0),
       Re("private\\s+\\w+", 0),
       Re("public\\s+static\\s+void\\s+main", 0),
       Re("@\\w+", 0),
       Re("package\\s+[\\w.]+;", 0),
       Re("import\\s+[\\w.*]+;", 0),
       Re("extends\\s+\\w+", 0),
       Re("implements\\s+\\w+", 0),
       Re("\\bnew\\s+\\w+\\s*\\(", 0),
       Re("System\\.out\\.print", 0) >> @@
  "go" :>
    << Re("package\\s+\\w+", 0),
       Re("func\\s+\\w+\\s*\\(", 0),
       Re("import\\s+\\(", 0),
       Re("type\\s+\\w+\\s+struct", 0),
       Re("var\\s+\\w+\\s+\\w+", 0),
       Re(":\\s*=\\s*", 0),
       Re("defer\\s+", 0),
       Re("go\\s+\\w+\\(", 0),
       Re("chan\\s+\\w+", 0),
       Re("range\\s+\\w+", 0) >> @@
  "rust" :>
    << Re("fn\\s+\\w+\\s*\\(", 0),
       Re("let\\s+mut\\s+", 0),
       Re("use\\s+\\w+::", 0),
       Re("struct\\s+\\w+", 0),
       Re("impl\\s+\\w+", 0),
       Re("pub\\s+(fn|struct|enum)", 1),
       Re("match\\s+\\w+", 0),
       Re("Some\\(|None", 0),
       Re("Ok\\(|Err\\(", 0),
       Re("\\bmacro_rules!", 0) >> @@
  "csharp" :>
    << Re("using\\s+[\\w.]+;", 0),
       Re("namespace\\s+[\\w.]+", 0),
       Re("class\\s+\\w+", 0),
       Re("public\\s+(class|interface|enum)", 1),
       Re("private\\s+\\w+", 0),
       Re("static\\s+void\\s+Main", 0),
       Re("\\[\\w+\\]", 0),
       Re("async\\s+Task", 0),
       Re("=>\\s*\\{", 0),
       Re("var\\s+\\w+\\s*=", 0) >> @@
  "php" :>
    << Re("<\\?php", 0),
       Re("\\$\\w+\\s*=", 0),
       Re("function\\s+\\w+\\s*\\(", 0),
       Re("class\\s+\\w+", 0),
       Re("namespace\\s+[\\w\\\\]+;", 0),
       Re("use\\s+[\\w\\\\]+;", 0),
       Re("public\\s+function", 0),
       Re("private\\s+function", 0),
       Re("->\\w+\\(", 0),
       Re("::\\w+\\(", 0) >> @@
  "ruby" :>
    << Re("def\\s+\\w+", 0),
       Re("class\\s+\\w+", 0),
       Re("module\\s+\\w+", 0),
       Re("require\\s+[\"']", 0),
       Re("attr_(reader|writer|accessor)", 1),
       Re("\\bdo\\s*\\|", 0),
       Re("\\bend\\b", 0),
       Re("\\|\\w+\\|", 0),
       Re("@\\w+\\s*=", 0),
       Re("puts\\s+", 0) >> @@
  "jsx" :>
    << Re("<\\w[^>]*>", 0),
       Re("<\\/\\w+>", 0),
       Re("className=", 0),
       Re("onClick=", 0),
       Re("useState\\(", 0),
       Re("useEffect\\(", 0),
       Re("return\\s*\\(", 0),
       Re("\\.jsx", 0) >> @@
  "tsx" :>
    << Re("<\\w[^>]*>", 0),
       Re("<\\/\\w+>", 0),
       Re("interface\\s+\\w+Props", 0),
       Re(":\\s*React\\.FC", 0),
       Re("useState<\\w+>\\(", 0),
       Re("className=", 0),
       Re("\\.tsx", 0) >>

Languages ==
  << "javascript", "typescript", "python", "java", "go", "rust", "csharp", "php", "ruby", "jsx", "tsx" >>

\* FRAMEWORK_PATTERNS
FRAMEWORK_PATTERNS ==
  "react" :>
    << Re("import.*from\\s*[\"']react[\"']", 0),
       Re("React\\.", 0),
       Re("useState\\(", 0),
       Re("useEffect\\(", 0) >> @@
  "vue" :>
    << Re("import.*from\\s*[\"']vue[\"']", 0),
       Re("Vue\\.", 0),
       Re("<template>", 0),
       Re("v-model", 0) >> @@
  "angular" :>
    << Re("@Component", 0),
       Re("@Injectable", 0),
       Re("import.*from\\s*[\"']@angular", 0),
       Re("ngOnInit", 0) >> @@
  "express" :>
    << Re("express\\(\\)", 0),
       Re("app\\.(get|post|put|delete)", 1),
       Re("import.*express", 0) >> @@
  "nextjs" :>
    << Re("next\\/", 0),
       Re("getServerSideProps", 0),
       Re("getStaticProps", 0),
       Re("_app\\.(js|tsx)", 1) >> @@
  "nestjs" :>
    << Re("@Module", 0),
       Re("@Controller", 0),
       Re("@Injectable", 0),
       Re("import.*@nestjs", 0) >> @@
  "django" :>
    << Re("from\\s+django", 0),
       Re("models\\.Model", 0),
       Re("views\\.py", 0),
       Re("urls\\.py", 0) >> @@
  "flask" :>
    << Re("from\\s+flask", 0),
       Re("Flask\\(__name__\\)", 0),
       Re("@app\\.route", 0) >> @@
  "fastapi" :>
    << Re("from\\s+fastapi", 0),
       Re("FastAPI\\(", 0),
       Re("@app\\.(get|post)", 1) >> @@
  "pytest" :>
    << Re("import\\s+pytest", 0),
       Re("@pytest\\.", 0),
       Re("def\\s+test_", 0) >> @@
  "spring" :>
    << Re("@SpringBootApplication", 0),
       Re("@RestController", 0),
       Re("@Service", 0),
       Re("import\\s+org\\.springframework", 0) >> @@
  "junit" :>
    << Re("@Test", 0),
       Re("import\\s+org\\.junit", 0),
       Re("@Before", 0),
       Re("@After", 0) >> @@
  "rails" :>
    << Re("class\\s+\\w+\\s*<\\s*ApplicationController", 0),
       Re("ActiveRecord::Base", 0),
       Re("Rails\\.application", 0) >>

Frameworks ==
  { "react", "vue", "angular", "express", "nextjs", "nestjs", "django", "flask", "fastapi", "pytest", "spring", "junit", "rails" }

\* LANGUAGE_MAPPINGS: extension -> language
LANGUAGE_MAPPINGS ==
  ".js" :> "javascript" @@ ".mjs" :> "javascript" @@ ".cjs" :> "javascript" @@
  ".jsx" :> "jsx" @@ ".ts" :> "typescript" @@ ".tsx" :> "tsx" @@
  ".py" :> "python" @@ ".pyw" :> "python" @@ ".pyi" :> "python" @@
  ".java" :> "java" @@ ".go" :> "go" @@ ".rs" :> "rust" @@
  ".cs" :> "csharp" @@ ".php" :> "php" @@ ".rb" :> "ruby" @@
  ".rake" :> "ruby"

\* getLanguageFrameworks
LanguageFrameworks ==
  "javascript" :> {"react", "vue", "angular", "express", "nextjs", "jest",
                   "mocha", "vitest"} @@
  "typescript" :> {"react", "vue", "angular", "express", "nextjs", "nestjs",
                   "jest", "vitest"} @@
  "jsx" :> {"react", "nextjs", "jest"} @@
  "tsx" :> {"react", "nextjs", "jest"} @@
  "python" :> {"django", "flask", "fastapi", "pytest"} @@
  "java" :> {"spring", "junit"} @@
  "go" :> {} @@ "rust" :> {} @@ "csharp" :> {} @@ "php" :> {} @@
  "ruby" :> {"rails"}

getLanguageFrameworks(language) == LanguageFrameworks[language]

TestFrameworkNames == {"pytest", "junit", "jest", "mocha", "vitest"}

(***************************************************************************)
(* File names are sequences of one-character strings, so that extname,     *)
(* toLowerCase and the file-name patterns are computed, not assumed.       *)
(* detectLanguage reads only the base name of its path.                    *)
(***************************************************************************)
UpperCase == <<"A", "B", "C", "E", "J", "K", "P", "R", "S", "T", "X", "Y">>
LowerCase == <<"a", "b", "c", "e", "j", "k", "p", "r", "s", "t", "x", "y">>

LowerChar(c) ==
  IF \E k \in 1..Len(UpperCase) : UpperCase[k] = c
  THEN LowerCase[CHOOSE k \in 1..Len(UpperCase) : UpperCase[k] = c]
  ELSE c

ToLowerCase(name) == [k \in 1..Len(name) |-> LowerChar(name[k])]

RECURSIVE Join(_)
Join(name) == IF name = <<>> THEN "" ELSE name[1] \o Join(Tail(name))

\* path.extname: from the last "." of the base name, unless that is its
\* first character or there is none
ExtName(name) ==
  LET dots == {k \in 1..Len(name) : name[k] = "."}
      last == CHOOSE k \in dots : \A j \in dots : j <= k
  IN  IF dots = {} \/ last = 1 THEN <<>>
      ELSE SubSeq(name, last, Len(name))

StartsAt(name, k, sub) ==
  /\ k + Len(sub) - 1 <= Len(name)
  /\ SubSeq(name, k, k + Len(sub) - 1) = sub

Includes(name, sub) == \E k \in 1..Len(name) : StartsAt(name, k, sub)

EndsWith(name, sub) ==
  Len(sub) <= Len(name) /\ StartsAt(name, Len(name) - Len(sub) + 1, sub)

\* /test|spec/i
LooksLikeTest(name) ==
  \/ Includes(ToLowerCase(name), <<"t", "e", "s", "t">>)
  \/ Includes(ToLowerCase(name), <<"s", "p", "e", "c">>)

\* /\.spec\.(js|ts|jsx|tsx)$/
IsSpecFile(name) ==
  \E e \in {<<"j", "s">>, <<"t", "s">>, <<"j", "s", "x">>, <<"t", "s", "x">>} :
    EndsWith(name, <<".", "s", "p", "e", "c", ".">> \o e)

\* /test_.*\.py$/
IsPytestFile(name) ==
  /\ EndsWith(name, <<".", "p", "y">>)
  /\ \E k \in 1..Len(name) :
       /\ StartsAt(name, k, <<"t", "e", "s", "t", "_">>)
       /\ k + 5 <= Len(name) - 2

\* ext in LANGUAGE_MAPPINGS
isSupported(name) ==
  Join(ToLowerCase(ExtName(name))) \in DOMAIN LANGUAGE_MAPPINGS

(***************************************************************************)
(* Content is what the regular expressions find in it: kind is "absent"    *)
(* (no content argument), "empty" or "text", and occ gives, for the        *)
(* sources that occur at all, the number of their occurrences.             *)
(***************************************************************************)
Occurrences(c, source) == IF source \in DOMAIN c.occ THEN c.occ[source] ELSE 0

\* (content.match(pattern) || []).length for a pattern without the g flag:
\* the match array holds the match and its capture groups
MatchArrayLength(c, p) ==
  IF Occurrences(c, p.re) > 0 THEN 1 + p.groups ELSE 0

\* pattern.test(content)
Test(c, source) == Occurrences(c, source) > 0

RECURSIVE SumMatches(_, _)
SumMatches(c, patterns) ==
  IF patterns = <<>> THEN Num(0)
  ELSE LET matchCount == MatchArrayLength(c, patterns[1])
           rest == SumMatches(c, Tail(patterns))
       IN  IF matchCount > 0
           THEN Add(MathMin(Frac(matchCount, 10), Num(1)), rest)
           ELSE rest

\* the score of one language: matches / totalPatterns
LanguageScore(c, language) ==
  LET patterns == LANGUAGE_PATTERNS[language]
      matches  == SumMatches(c, patterns)
  IN  Frac(matches.num, matches.den * Len(patterns))

\* the loop over scores.entries(): the first language with the highest score
RECURSIVE HighestScore(_, _, _)
HighestScore(c, k, best) ==
  IF k > Len(Languages) THEN best
  ELSE LET score == LanguageScore(c, Languages[k])
       IN  IF Lt(Num(0), score) /\ Lt(best.maxScore, score)
           THEN HighestScore(c, k + 1,
                             [maxScore |-> score, language |-> Languages[k]])
           ELSE HighestScore(c, k + 1, best)

DetectedFrameworks(c) ==
  {f \in Frameworks :
     \E k \in 1..Len(FRAMEWORK_PATTERNS[f]) : Test(c, FRAMEWORK_PATTERNS[f][k].re)}

FileNameFrameworks(name) ==
  IF ~LooksLikeTest(name) THEN {}
  ELSE IF IsSpecFile(name) THEN {"jest"}
  ELSE IF IsPytestFile(name) THEN {"pytest"}
  ELSE {}

MinimumConfidence == Frac(3, 10)

AboveMinimumAnyScore(confidence, detectedLanguage) == detectedLanguage

\* confidence > 0.3 ? detectedLanguage : null
AboveMinimum(confidence, detectedLanguage) ==
  IF Lt(MinimumConfidence, confidence) THEN detectedLanguage ELSE "null"

\* detectByContent; detectedLanguage is its local variable before the
\* minimum threshold is applied
detectByContent(c, name) ==
  LET best == HighestScore(c, 1, [maxScore |-> Num(0), language |-> "null"])
      detectedFrameworks == DetectedFrameworks(c) \cup FileNameFrameworks(name)
      base == MathMin(Scale(best.maxScore, 8, 10), Frac(95, 100))
      confidence ==
        IF best.language = "null" THEN Num(0)
        ELSE IF detectedFrameworks \cap getLanguageFrameworks(best.language) # {}
             THEN MathMin(Add(base, Frac(1, 10)), Frac(99, 100))
             ELSE base
  IN  [language |-> AboveMinimum(confidence, best.language),
       detectedLanguage |-> best.language,
       confidence |-> confidence,
       frameworks |-> detectedFrameworks,
       testFrameworks |-> (DetectedFrameworks(c) \cap TestFrameworkNames)
                          \cup FileNameFrameworks(name)]

NoContentResult ==
  [language |-> "null", detectedLanguage |-> "null", confidence |-> Num(0),
   frameworks |-> {}, testFrameworks |-> {}]

\* content || ""
OrEmpty(c) == IF c.kind = "text" THEN c ELSE [kind |-> "empty", occ |-> <<>>]

ExtensionConfidence == Frac(8, 10)

ExtensionOfCaseSensitive(name) == Join(ExtName(name))

\* path.extname(filePath).toLowerCase()
ExtensionOf(name) == Join(ToLowerCase(ExtName(name)))

ReconcileTakingContentConfidence(language0, confidence0, contentResult) ==
  [language |-> IF language0 = "null" THEN contentResult.language
                ELSE language0,
   confidence |-> contentResult.confidence]

\* the reconciliation of the extension's answer with detectByContent's
Reconcile(language0, confidence0, contentResult) ==
  IF contentResult.language # "null"
  THEN IF language0 = "null"
       THEN [language |-> contentResult.language,
             confidence |-> contentResult.confidence]
       ELSE IF language0 = contentResult.language
       THEN [language |-> language0,
             confidence |-> MathMin(Num(1), Add(confidence0, Frac(2, 10)))]
       ELSE [language |-> language0, confidence |-> confidence0]
  ELSE [language |-> language0, confidence |-> confidence0]

\* detectLanguage: ran tells whether detectByContent was called, and
\* contentResult is what it returned
detectLanguage(name, c) ==
  LET ext == ExtensionOf(name)
      byExt == ext \in DOMAIN LANGUAGE_MAPPINGS
      language0 == IF byExt THEN LANGUAGE_MAPPINGS[ext] ELSE "null"
      confidence0 == IF byExt THEN ExtensionConfidence ELSE Num(0)
      run == language0 = "null" \/ c.kind = "text"
      contentResult == IF run THEN detectByContent(OrEmpty(c), name)
                       ELSE NoContentResult
      merged == IF run THEN Reconcile(language0, confidence0, contentResult)
                ELSE [language |-> language0, confidence |-> confidence0]
  IN  [ran |-> run, contentResult |-> contentResult,
       result |->
         [language |-> merged.language,
          confidence |-> merged.confidence,
          frameworks |-> contentResult.frameworks,
          testFrameworks |-> contentResult.testFrameworks]]

(***************************************************************************)
(* The inputs detectLanguage is applied to                                 *)
(***************************************************************************)
SupportedExtensions ==
  { <<".", "j", "s">>,
    <<".", "m", "j", "s">>,
    <<".", "c", "j", "s">>,
    <<".", "j", "s", "x">>,
    <<".", "t", "s">>,
    <<".", "t", "s", "x">>,
    <<".", "p", "y">>,
    <<".", "p", "y", "w">>,
    <<".", "p", "y", "i">>,
    <<".", "j", "a", "v", "a">>,
    <<".", "g", "o">>,
    <<".", "r", "s">>,
    <<".", "c", "s">>,
    <<".", "p", "h", "p">>,
    <<".", "r", "b">>,
    <<".", "r", "a", "k", "e">> }

OtherExtensions ==
  { <<".", "P", "Y">>,
    <<".", "T", "s">>,
    <<".", "J", "S", "X">>,
    <<".", "t", "x", "t">>,
    <<".", "c">>,
    <<".">>,
    <<>> }

Stems ==
  { <<"a", "p", "p">>,
    <<"t", "e", "s", "t", "_", "a", "p", "i">>,
    <<"a", "p", "i", ".", "s", "p", "e", "c">>,
    <<>> }

DetectPaths ==
  {s \o e : s \in Stems, e \in SupportedExtensions \cup OtherExtensions}
  \ {<<>>}

\* a occurring implies b occurring: <<a, b>>
Implications ==
  { <<"def\\s+\\w+\\s*\\(", "def\\s+\\w+">>,
    <<"def\\s+test_", "def\\s+\\w+">>,
    <<"from\\s+\\w+\\s+import", "import\\s+\\w+">>,
    <<"import\\s+[\\w.*]+;", "import\\s+\\w+">>,
    <<"import\\s+pytest", "import\\s+\\w+">>,
    <<"public\\s+class\\s+\\w+", "class\\s+\\w+">>,
    <<"public\\s+class\\s+\\w+", "public\\s+\\w+">>,
    <<"public\\s+class\\s+\\w+", "public\\s+(class|interface|enum)">>,
    <<"public\\s+(class|interface|enum)", "public\\s+\\w+">>,
    <<"public\\s+static\\s+void\\s+main", "public\\s+\\w+">>,
    <<"public\\s+function", "public\\s+\\w+">>,
    <<"private\\s+function", "private\\s+\\w+">>,
    <<"\\bvar\\s+\\w+\\s*=", "var\\s+\\w+\\s*=">>,
    <<"interface\\s+\\w+Props", "interface\\s+\\w+">>,
    <<"useState<\\w+>\\(", "<\\w+(?:,\\s*\\w+)*>">>,
    <<"<\\w+(?:,\\s*\\w+)*>", "<\\w[^>]*>">>,
    <<"namespace\\s+\\w+", "namespace\\s+[\\w.]+">>,
    <<"namespace\\s+[\\w.]+", "namespace\\s+\\w+">>,
    <<"namespace\\s+[\\w\\\\]+;", "namespace\\s+\\w+">>,
    <<"package\\s+[\\w.]+;", "package\\s+\\w+">>,
    <<"@\\w+\\s*=", "@\\w+">>,
    <<"@pytest\\.", "@\\w+">>,
    <<"@app\\.route", "@\\w+">>,
    <<"@Test", "@\\w+">>,
    <<"@Component", "@\\w+">>,
    <<"@RestController", "@\\w+">> }

MaxOf(S) == CHOOSE x \in S : \A y \in S : y <= x

Direct(o, s) == IF s \in DOMAIN o THEN o[s] ELSE 0

Close(o) ==
  LET from(s) == {q \in Implications : q[2] = s /\ q[1] \in DOMAIN o}
      dom == DOMAIN o \cup {q[2] : q \in {r \in Implications : r[1] \in DOMAIN o}}
  IN  [s \in dom |-> MaxOf({Direct(o, s)} \cup {o[q[1]] : q \in from(s)})]

Text(o) == [kind |-> "text", occ |-> Close(Close(o))]

SourcesOf(language) ==
  {LANGUAGE_PATTERNS[language][k].re : k \in 1..Len(LANGUAGE_PATTERNS[language])}

\* content in which every signature pattern of one language occurs n times
EveryPatternOf(language, n) == Text([s \in SourcesOf(language) |-> n])

MaxOccurrences == 12

OccurrenceCounts == {1, 10, MaxOccurrences}

\* a Django models module, a React component and a pytest module
DjangoModels ==
  Text("from\\s+django" :> 2 @@ "models\\.Model" :> 3 @@
       "from\\s+\\w+\\s+import" :> 2 @@ "class\\s+\\w+" :> 3 @@
       "def\\s+\\w+\\s*\\(" :> 4 @@ "\\bself\\." :> 6)

ReactComponent ==
  Text("import.*from\\s*[\"']react[\"']" :> 1 @@ "useState\\(" :> 2 @@
       "import\\s+(?:\\S.*)?from" :> 3 @@ "\\bconst\\s+\\w+\\s*=" :> 5 @@
       "=>\\s*\\{" :> 4 @@ "<\\w[^>]*>" :> 9 @@ "<\\/\\w+>" :> 7 @@
       "className=" :> 6 @@ "return\\s*\\(" :> 1 @@
       "export\\s+(default\\s+)?" :> 1)

PytestModule ==
  Text("import\\s+pytest" :> 1 @@ "def\\s+test_" :> 3 @@
       "def\\s+\\w+\\s*\\(" :> 3 @@ "@pytest\\." :> 1)

DetectContents ==
  { [kind |-> "absent", occ |-> <<>>],
    [kind |-> "empty", occ |-> <<>>],
    [kind |-> "text", occ |-> <<>>],
    DjangoModels, ReactComponent, PytestModule }
  \cup {EveryPatternOf(Languages[k], n) :
          k \in 1..Len(Languages), n \in OccurrenceCounts}

NotDetected == [done |-> FALSE, ran |-> FALSE,
                contentResult |-> NoContentResult,
                result |-> [language |-> "null", confidence |-> Num(0),
                            frameworks |-> {}, testFrameworks |-> {}]]

DetectInit ==
  /\ filePath \in DetectPaths
  /\ content \in DetectContents
  /\ detection = NotDetected

DetectLanguage ==
  /\ ~detection.done
  /\ detection' = [done |-> TRUE] @@ detectLanguage(filePath, content)
  /\ UNCHANGED <<filePath, content>>
  /\ UNCHANGED otherThanDetect

DetectIdle ==
  /\ filePath = <<"a">>
  /\ content = [kind |-> "absent", occ |-> <<>>]
  /\ detection = NotDetected

(***************************************************************************)
(* LanguageDetector.detectProjectLanguages.  A project is the state of its *)
(* root ("ok", "missing" or "unreadable"), the marker files in the root    *)
(* and the root's entries in the order readdir gives them.  An entry is a  *)
(* file (name, whether readFile succeeds, content) or a directory          *)
(* (dirName, whether readdir succeeds, entries).                           *)
(***************************************************************************)
BUILD_TOOL_PATTERNS ==
  "npm" :> {"package.json", "package-lock.json"} @@
  "yarn" :> {"yarn.lock", ".yarnrc"} @@
  "pnpm" :> {"pnpm-lock.yaml", ".pnpmfile.cjs"} @@
  "bun" :> {"bun.lockb", "bunfig.toml"} @@
  "pip" :> {"requirements.txt", "setup.py"} @@
  "pipenv" :> {"Pipfile", "Pipfile.lock"} @@
  "poetry" :> {"pyproject.toml", "poetry.lock"} @@
  "maven" :> {"pom.xml"} @@
  "gradle" :> {"build.gradle", "build.gradle.kts", "settings.gradle"} @@
  "gomod" :> {"go.mod", "go.sum"} @@
  "cargo" :> {"Cargo.toml", "Cargo.lock"} @@
  "bundler" :> {"Gemfile", "Gemfile.lock"} @@
  "composer" :> {"composer.json", "composer.lock"} @@
  "nuget" :> {"packages.config", "*.csproj"}

PackageManagerNames ==
  {"npm", "yarn", "pnpm", "bun", "pip", "pipenv", "poetry", "bundler",
   "composer"}

\* the tools one of whose files fs.access finds in the root
ToolsPresent(markers) ==
  {t \in DOMAIN BUILD_TOOL_PATTERNS : BUILD_TOOL_PATTERNS[t] \cap markers # {}}

SkippedDirectories ==
  {"node_modules", ".git", "dist", "build", "target", "__pycache__"}

FileEntry(name, readable, c) ==
  [kind |-> "file", name |-> name, dirName |-> "", readable |-> readable,
   content |-> c, entries |-> <<>>]

DirEntry(dirName, readable, entries) ==
  [kind |-> "dir", name |-> <<>>, dirName |-> dirName, readable |-> readable,
   content |-> [kind |-> "absent", occ |-> <<>>], entries |-> entries]

PyFile == FileEntry(<<"a", "p", "p", ".", "p", "y">>, TRUE, DjangoModels)
TsFile == FileEntry(<<"a", "p", "p", ".", "t", "s">>, TRUE,
                    [kind |-> "empty", occ |-> <<>>])
SpecFile == FileEntry(<<"a", "p", "i", ".", "s", "p", "e", "c", ".", "t", "s">>,
                      TRUE, ReactComponent)
UnreadablePyFile == FileEntry(<<"a", "p", "p", ".", "P", "Y">>, FALSE,
                              [kind |-> "absent", occ |-> <<>>])
TextFile == FileEntry(<<"a", "p", "p", ".", "t", "x", "t">>, TRUE, PytestModule)

ProjectEntries ==
  { PyFile, TsFile, SpecFile, UnreadablePyFile, TextFile,
    DirEntry("src", TRUE, <<TsFile, PyFile, PyFile>>),
    DirEntry("node_modules", TRUE, <<PyFile>>),
    DirEntry("secret", FALSE, <<PyFile>>) }

MaxEntries == 3

Projects ==
  {[state |-> "ok", markers |-> m, entries |-> es] :
      m \in {{}, {"package.json", "Makefile"}, {"pom.xml", "go.sum"}},
      es \in UNION {[1..n -> ProjectEntries] : n \in 0..MaxEntries}}
  \cup {[state |-> s, markers |-> {}, entries |-> <<>>] :
          s \in {"missing", "unreadable"}}

\* languageCounts is a Map: its entries in insertion order
CountOf(counts, language) ==
  IF \E k \in 1..Len(counts) : counts[k].language = language
  THEN counts[CHOOSE k \in 1..Len(counts) : counts[k].language = language].count
  ELSE 0

\* languageCounts.set(language, (languageCounts.get(language) || 0) + 1)
Increment(counts, language) ==
  IF \E k \in 1..Len(counts) : counts[k].language = language
  THEN [k \in 1..Len(counts) |->
          IF counts[k].language = language
          THEN [language |-> language, count |-> counts[k].count + 1]
          ELSE counts[k]]
  ELSE Append(counts, [language |-> language, count |-> 1])

NoPrimary == [maxCount |-> 0, primaryLanguage |-> "null"]

RECURSIVE PrimaryLastMaximum(_, _, _)
PrimaryLastMaximum(counts, k, best) ==
  IF k > Len(counts) THEN best
  ELSE IF counts[k].count >= best.maxCount
       THEN PrimaryLastMaximum(counts, k + 1,
              [maxCount |-> counts[k].count,
               primaryLanguage |-> counts[k].language])
       ELSE PrimaryLastMaximum(counts, k + 1, best)

\* the loop over languageCounts.entries(): count > maxCount
RECURSIVE PrimaryFrom(_, _, _)
PrimaryFrom(counts, k, best) ==
  IF k > Len(counts) THEN best
  ELSE IF counts[k].count > best.maxCount
       THEN PrimaryFrom(counts, k + 1,
              [maxCount |-> counts[k].count,
               primaryLanguage |-> counts[k].language])
       ELSE PrimaryFrom(counts, k + 1, best)

TotalFilesAfterIfRead(total, entry) ==
  IF entry.readable THEN total + 1 ELSE total

\* totalFiles++, before the file is read
TotalFilesAfter(total, entry) == total + 1

NoProfile ==
  [primaryLanguage |-> "null", languages |-> <<>>, frameworks |-> {},
   packageManagers |-> {}, buildTools |-> {}, testFrameworks |-> {},
   totalFiles |-> 0]

ProjectInit ==
  /\ project \in Projects
  /\ ppc = "start"
  /\ pending = <<>>
  /\ languageCounts = <<>>
  /\ totalFiles = 0
  /\ allFrameworks = {}
  /\ allTestFrameworks = {}
  /\ packageManagers = {}
  /\ buildTools = {}
  /\ profile = NoProfile
  /\ projectThrown = ""

\* the build-tool probes, then scanDirectory(projectPath) up to its readdir
StartScan ==
  /\ ppc = "start"
  /\ LET tools == IF project.state = "missing" THEN {}
                  ELSE ToolsPresent(project.markers)
     IN  /\ packageManagers' = tools \cap PackageManagerNames
         /\ buildTools' = tools \ PackageManagerNames
  /\ IF project.state = "ok"
     THEN pending' = project.entries /\ ppc' = "scan"
     ELSE pending' = <<>> /\ ppc' = "primary"   \* readdir threw: outer catch
  /\ UNCHANGED <<project, languageCounts, totalFiles, allFrameworks,
                 allTestFrameworks, profile, projectThrown>>
  /\ UNCHANGED otherThanProject

\* one iteration of scanDirectory's loop over entries
VisitEntry ==
  /\ ppc = "scan"
  /\ pending # <<>>
  /\ LET entry == Head(pending)
     IN  IF entry.kind = "dir"
         THEN /\ IF entry.dirName \in SkippedDirectories
                 THEN pending' = Tail(pending) /\ ppc' = ppc
                 ELSE IF entry.readable
                 THEN pending' = entry.entries \o Tail(pending) /\ ppc' = ppc
                 \* readdir threw: every scanDirectory on the stack ends,
                 \* the outer catch takes the error
                 ELSE pending' = <<>> /\ ppc' = "primary"
              /\ UNCHANGED <<totalFiles, languageCounts,
                             allFrameworks, allTestFrameworks>>
         ELSE /\ pending' = Tail(pending)
              /\ ppc' = ppc
              /\ IF isSupported(entry.name)
                 THEN /\ totalFiles' = TotalFilesAfter(totalFiles, entry)
                      /\ \E r \in {detectLanguage(entry.name,
                                                  entry.content).result} :
                           IF entry.readable /\ r.language # "null"
                           THEN /\ languageCounts' =
                                     Increment(languageCounts, r.language)
                                /\ allFrameworks' =
                                     allFrameworks \cup r.frameworks
                                /\ allTestFrameworks' =
                                     allTestFrameworks \cup r.testFrameworks
                           ELSE UNCHANGED <<languageCounts, allFrameworks,
                                            allTestFrameworks>>
                 ELSE UNCHANGED <<totalFiles, languageCounts,
                                  allFrameworks, allTestFrameworks>>
  /\ UNCHANGED <<project, packageManagers, buildTools, profile,
                 projectThrown>>
  /\ UNCHANGED otherThanProject

\* the primary language and the returned profile
ReturnProfile ==
  /\ \/ ppc = "primary"
     \/ ppc = "scan" /\ pending = <<>>
  /\ profile' =
       [primaryLanguage |->
          PrimaryFrom(languageCounts, 1, NoPrimary).primaryLanguage,
        languages |-> languageCounts,
        frameworks |-> allFrameworks,
        packageManagers |-> packageManagers,
        buildTools |-> buildTools,
        testFrameworks |-> allTestFrameworks,
        totalFiles |-> totalFiles]
  /\ ppc' = "done"
  /\ UNCHANGED <<project, pending, languageCounts, totalFiles,
                 allFrameworks, allTestFrameworks, packageManagers,
                 buildTools, projectThrown>>
  /\ UNCHANGED otherThanProject

ProjectIdle ==
  /\ project = [state |-> "missing", markers |-> {}, entries |-> <<>>]
  /\ ppc = "idle"
  /\ pending = <<>>
  /\ languageCounts = <<>>
  /\ totalFiles = 0
  /\ allFrameworks = {}
  /\ allTestFrameworks = {}
  /\ packageManagers = {}
  /\ buildTools = {}
  /\ profile = NoProfile
  /\ projectThrown = ""

(***************************************************************************)
(* CodeAnalyzer.calculateMetrics.  Content is what the metrics read in it: *)
(* lines gives how many lines of each kind it has,                         *)
(*   blank  lines of spaces             slash  lines "// TODO"             *)
(*   hash   lines "# TODO"              short  code lines of at most 10    *)
(*   long   equal code lines of 22 characters     characters, trimmed      *)
(*   other  equal code lines of 11 characters                              *)
(* words gives the occurrences of each branching keyword as a word, and    *)
(* occ the occurrences of each text a complexity pattern matches.          *)
(***************************************************************************)
LineKinds == {"blank", "slash", "hash", "short", "long", "other"}

\* line.trim().length of each kind of line
TrimmedLength == "blank" :> 0 @@ "slash" :> 7 @@ "hash" :> 6 @@
                 "short" :> 10 @@ "long" :> 22 @@ "other" :> 11

\* one line of text: its kind, after the white space around it (indent
\* characters in front)
Line(kind, indent) == [kind |-> kind, indent |-> indent]

\* line.trim(): lines of one kind have one trimmed text
Trim(line) == line.kind

\* content.split("\n"), the kinds in a fixed order
KindOrder == <<"blank", "slash", "hash", "short", "long", "other">>

\* the lines in front of the first line of the k-th kind
RECURSIVE LinesBefore(_, _)
LinesBefore(lines, k) ==
  IF k = 1 THEN 0
  ELSE LinesBefore(lines, k - 1) + lines[KindOrder[k - 1]]

KindAt(lines, i) ==
  KindOrder[CHOOSE k \in 1..Len(KindOrder) :
              /\ LinesBefore(lines, k) < i
              /\ i <= LinesBefore(lines, k) + lines[KindOrder[k]]]

Split(lines) ==
  [i \in 1..LinesBefore(lines, Len(KindOrder) + 1) |->
     Line(KindAt(lines, i), 0)]

\* complexityPatterns, by the source of each pattern: /\\bif\\b/ matches
\* the six characters \bif\b, a backslash at each end of "bif" and a "b"
complexityPatterns ==
  "javascript" :> << "\\\\bif\\\\b", "\\\\belse\\\\b", "\\\\bfor\\\\b",
                     "\\\\bwhile\\\\b", "\\\\bswitch\\\\b", "\\\\bcatch\\\\b",
                     "\\\\b\\\\?\\\\.*:\\\\s*" >> @@
  "typescript" :> << "\\\\bif\\\\b", "\\\\belse\\\\b", "\\\\bfor\\\\b",
                     "\\\\bwhile\\\\b", "\\\\bswitch\\\\b", "\\\\bcatch\\\\b",
                     "\\\\b\\\\?\\\\.*:\\\\s*" >> @@
  "python" :> << "\\\\bif\\\\b", "\\\\belif\\\\b", "\\\\belse\\\\b",
                 "\\\\bfor\\\\b", "\\\\bwhile\\\\b", "\\\\btry\\\\b",
                 "\\\\bexcept\\\\b" >> @@
  "java" :> << "\\\\bif\\\\b", "\\\\belse\\\\b", "\\\\bfor\\\\b",
               "\\\\bwhile\\\\b", "\\\\bswitch\\\\b", "\\\\bcatch\\\\b",
               "\\\\b\\\\?\\\\.*:\\\\s*" >>

\* complexityPatterns[language] || complexityPatterns.javascript
PatternsFor(language) ==
  IF language \in DOMAIN complexityPatterns THEN complexityPatterns[language]
  ELSE complexityPatterns["javascript"]

\* content.match(new RegExp(pattern.source, "g")): every occurrence
RECURSIVE SumGlobalMatches(_, _)
SumGlobalMatches(c, patterns) ==
  IF patterns = <<>> THEN 0
  ELSE Occurrences(c, patterns[1]) + SumGlobalMatches(c, Tail(patterns))

calculateComplexity(c, language) == 1 + SumGlobalMatches(c, PatternsFor(language))

\* commentPatterns: the kinds of line one of the language's patterns matches
commentPatterns ==
  [language \in {"javascript", "typescript", "jsx", "tsx", "java", "go",
                 "rust", "csharp"} |-> {"slash"}] @@
  "python" :> {"hash"} @@ "ruby" :> {"hash"} @@ "php" :> {"slash", "hash"}

RECURSIVE SumLines(_, _)
SumLines(lines, kinds) ==
  IF kinds = {} THEN 0
  ELSE LET k == CHOOSE k \in kinds : TRUE
       IN  lines[k] + SumLines(lines, kinds \ {k})

countCommentLines(c, language) == SumLines(c.lines, commentPatterns[language])

\* lines.filter((line) => line.trim() !== "").length
NonEmptyLines(c) == SumLines(c.lines, LineKinds \ {"blank"})

\* Math.log, in thousandths, of the line counts the contents below have;
\* Math.log(0) is -Infinity
NaturalLogarithms ==
  1 :> 0 @@ 6 :> 1792 @@ 20 :> 2996 @@ 200 :> 5298 @@ 250 :> 5521
    @@ 255 :> 5541

MathLog(n) == IF n = 0 THEN Frac(-1, 0) ELSE Frac(NaturalLogarithms[n], 1000)

calculateMaintainabilityIndex(loc, cx, commentLines) ==
  LET commentRatio == Div(commentLines, loc)
      complexityPenalty == cx * 2
      sizePenalty == Scale(MathLog(loc), 5, 1)
      index == Add(Add(Num(100 - complexityPenalty), Scale(sizePenalty, -1, 1)),
                   Scale(commentRatio, 10, 1))
  IN  MathMax(Num(0), MathMin(Num(100), index))

calculateTechnicalDebt(cx, loc) ==
  LET complexityDebt == (cx - 10) * 5
      sizeDebt == Scale(Num(IF loc - 200 > 0 THEN loc - 200 ELSE 0), 1, 10)
  IN  MathMax(Num(0), Add(Num(complexityDebt), sizeDebt))

DuplicatesAddedOneEach(count) == IF count >= 1 THEN 1 ELSE 0

\* count === 1: the original and its duplicate; count > 1: one more
DuplicatesAdded(count) ==
  IF count = 1 THEN 2 ELSE IF count > 1 THEN 1 ELSE 0

\* one pass of the loop body; lineMap.get(trimmed) || 0 is 0 for a new text
DuplicatesStep(line, st) ==
  LET trimmed == Trim(line)
      count == st.lineMap[trimmed]
  IN  IF TrimmedLength[trimmed] > 10
      THEN [lineMap |-> [st.lineMap EXCEPT ![trimmed] = count + 1],
            duplicates |-> st.duplicates + DuplicatesAdded(count)]
      ELSE st

\* the loop over lines[lo..hi], in order: the passes over the first half
\* are finished (first is a state the loop reached, its count is never
\* negative) before those over the second half start from it
RECURSIVE DuplicatesFrom(_, _, _, _)
DuplicatesFrom(lines, lo, hi, st) ==
  IF lo > hi THEN st
  ELSE IF lo = hi THEN DuplicatesStep(lines[lo], st)
  ELSE LET mid == (lo + hi) \div 2
           first == DuplicatesFrom(lines, lo, mid, st)
       IN  IF first.duplicates >= 0
           THEN DuplicatesFrom(lines, mid + 1, hi, first)
           ELSE first

findDuplicateLines(lines) ==
  DuplicatesFrom(lines, 1, Len(lines),
                 [lineMap |-> [t \in LineKinds |-> 0],
                  duplicates |-> 0]).duplicates

calculateMetrics(c, language) ==
  LET nonEmptyLines == NonEmptyLines(c)
      commentLines == countCommentLines(c, language)
      cx == calculateComplexity(c, language)
  IN  [complexity |-> cx,
       maintainabilityIndex |->
         calculateMaintainabilityIndex(nonEmptyLines, cx, commentLines),
       linesOfCode |-> nonEmptyLines,
       technicalDebt |-> calculateTechnicalDebt(cx, nonEmptyLines),
       duplicateLines |-> findDuplicateLines(Split(c.lines))]

(***************************************************************************)
(* The contents calculateMetrics is applied to                             *)
(***************************************************************************)
Lines(f) == [k \in LineKinds |-> IF k \in DOMAIN f THEN f[k] ELSE 0]

LineLayouts ==
  { Lines(<<>>),
    Lines("blank" :> 2),
    Lines("short" :> 1),
    Lines("short" :> 20),
    Lines("slash" :> 5 @@ "short" :> 1),
    Lines("hash" :> 5 @@ "short" :> 1),
    Lines("blank" :> 9 @@ "slash" :> 5 @@ "short" :> 190 @@ "long" :> 5),
    Lines("short" :> 249 @@ "long" :> 1),
    Lines("hash" :> 5 @@ "short" :> 245 @@ "long" :> 5) }

MaxBranches == 15

\* no branching keyword; MaxBranches if statements; a few of each keyword;
\* a file that quotes the sources of the complexity patterns
KeywordProfiles ==
  { [words |-> <<>>, occ |-> <<>>],
    [words |-> ("if" :> MaxBranches), occ |-> <<>>],
    [words |-> ("if" :> 2 @@ "else" :> 1 @@ "for" :> 3 @@ "try" :> 1
                @@ "except" :> 1 @@ "catch" :> 1),
     occ |-> <<>>],
    [words |-> <<>>,
     occ |-> ("\\\\bif\\\\b" :> 12 @@ "\\\\belse\\\\b" :> 3
              @@ "\\\\btry\\\\b" :> 1)] }

MetricsLanguages == {"typescript", "python", "java", "go"}

RECURSIVE TotalOf(_)
TotalOf(f) ==
  IF DOMAIN f = {} THEN 0
  ELSE LET k == CHOOSE k \in DOMAIN f : TRUE
       IN  f[k] + TotalOf([j \in DOMAIN f \ {k} |-> f[j]])

\* every keyword and every quoted pattern stands on a line of code of its own
MetricsInputs ==
  {[language |-> l, lines |-> ls, words |-> p.words, occ |-> p.occ] :
      l \in MetricsLanguages,
      <<ls, p>> \in {lp \in LineLayouts \X KeywordProfiles :
                      TotalOf(lp[2].words) + TotalOf(lp[2].occ)
                        <= lp[1]["short"] + lp[1]["long"]}}

NoMetricsYet ==
  [done |-> FALSE,
   metrics |-> [complexity |-> 0, maintainabilityIndex |-> NaN,
                linesOfCode |-> 0, technicalDebt |-> NaN,
                duplicateLines |-> 0]]

MetricsInit ==
  /\ metricsInput \in MetricsInputs
  /\ metricsOutput = NoMetricsYet

CalculateMetrics ==
  /\ ~metricsOutput.done
  /\ metricsOutput' =
       [done |-> TRUE,
        metrics |-> calculateMetrics(metricsInput, metricsInput.language)]
  /\ UNCHANGED metricsInput
  /\ UNCHANGED otherThanMetrics

MetricsIdle ==
  /\ metricsInput = [language |-> "typescript", lines |-> Lines(<<>>),
                     words |-> <<>>, occ |-> <<>>]
  /\ metricsOutput = NoMetricsYet

(***************************************************************************)
(* CodeAnalyzer.findDuplicateLines applied to the lines of one content     *)
(***************************************************************************)
MaxLines == 5

DuplicateLineTexts ==
  {Line("long", 0), Line("long", 2), Line("other", 0), Line("short", 0),
   Line("blank", 1)}

DuplicatesInputs == UNION {[1..n -> DuplicateLineTexts] : n \in 0..MaxLines}

NotCounted == [done |-> FALSE, duplicates |-> 0]

DuplicatesInit ==
  /\ duplicatesInput \in DuplicatesInputs
  /\ duplicatesOutput = NotCounted

FindDuplicateLines ==
  /\ ~duplicatesOutput.done
  /\ duplicatesOutput' =
       [done |-> TRUE, duplicates |-> findDuplicateLines(duplicatesInput)]
  /\ UNCHANGED duplicatesInput
  /\ UNCHANGED otherThanDuplicates

DuplicatesIdle ==
  /\ duplicatesInput = <<>>
  /\ duplicatesOutput = NotCounted

(***************************************************************************)
(* AIService.analyzeCode, step by step.  Time is the clock of the event    *)
(* loop in seconds.  A timer is unarmed, armed with the time at which it   *)
(* is due, fired (its callback has run) or cleared (clearTimeout).  An     *)
(* error is its name and the texts, of those handleAIError looks for, that *)
(* its message includes.                                                   *)
(***************************************************************************)
ProbeTimeout == 3
GenerationTimeout == 30

Unarmed == [state |-> "unarmed", due |-> 0]
Armed(due) == [state |-> "armed", due |-> due]
Fired(timer) == [state |-> "fired", due |-> timer.due]
Cleared(timer) == [state |-> "cleared", due |-> timer.due]

ErrorTexts == {"API key", "rate limit", "quota", "network", "ENOTFOUND"}

ErrorOf(name, texts) == [name |-> name, texts |-> texts]
NoError == ErrorOf("", {})

\* what controller.abort() makes generateText and fetch reject with
AbortError == ErrorOf("AbortError", {})

\* getProvider without a provider name
ProviderNotConfigured == ErrorOf("ConfigurationError", {})

\* the errors generateText rejects with by itself
ProviderErrors ==
  {ErrorOf("Error", texts) :
     texts \in {{}, {"API key"}, {"rate limit"}, {"quota"}, {"network"},
                {"ENOTFOUND"}, {"quota", "network"},
                {"rate limit", "API key"}, ErrorTexts}}

AIServiceError(message) == [type |-> "AIServiceError", message |-> message]

TimeoutError ==
  [type |-> "Error",
   message |-> "AI service request timed out after 30 seconds"]

handleAIErrorNetworkFirst(error) ==
  IF error.texts \cap {"network", "ENOTFOUND"} # {}
  THEN AIServiceError("Network connection failed")
  ELSE IF "API key" \in error.texts
  THEN AIServiceError("Invalid or missing API key")
  ELSE IF "rate limit" \in error.texts
  THEN AIServiceError("API rate limit exceeded")
  ELSE IF "quota" \in error.texts
  THEN AIServiceError("API quota exceeded")
  ELSE AIServiceError("AI service error")

\* what handleAIError throws
handleAIError(error) ==
  IF "API key" \in error.texts
  THEN AIServiceError("Invalid or missing API key")
  ELSE IF "rate limit" \in error.texts
  THEN AIServiceError("API rate limit exceeded")
  ELSE IF "quota" \in error.texts
  THEN AIServiceError("API quota exceeded")
  ELSE IF error.texts \cap {"network", "ENOTFOUND"} # {}
  THEN AIServiceError("Network connection failed")
  ELSE AIServiceError("AI service error")

CatchGenerationIgnoringAbort(error) == handleAIError(error)

\* the catch block around generateText: what it throws
CatchGeneration(error) ==
  IF error.name = "AbortError" THEN TimeoutError ELSE handleAIError(error)

AIProviders == {"openai", "ollama", ""}

NotSettled == [kind |-> "pending", text |-> "", error |-> NoError]
ReturnedText(text) == [kind |-> "returned", text |-> text, error |-> NoError]
Thrown(error) == [kind |-> "threw", text |-> "", error |-> error]

AIInit ==
  /\ aiProvider \in AIProviders
  /\ aiConfigLoads \in BOOLEAN
  /\ apc = "start"
  /\ clock = 0
  /\ probeTimer = Unarmed
  /\ generationTimer = Unarmed
  /\ caught = NoError
  /\ aiOutcome = NotSettled

\* the try block up to the await of generateText: the timer is armed, then
\* getProvider is called
BeginGeneration ==
  /\ generationTimer' = Armed(clock + GenerationTimeout)
  /\ IF aiProvider = ""
     THEN /\ caught' = ProviderNotConfigured
          /\ aiOutcome' = Thrown(CatchGeneration(ProviderNotConfigured))
          /\ apc' = "settled"
     ELSE /\ apc' = "generating"
          /\ UNCHANGED <<caught, aiOutcome>>

\* ensureConfig, then the probe of a local provider up to its await, or
\* the generation up to its await
EnsureConfig ==
  /\ apc = "start"
  /\ IF ~aiConfigLoads
     THEN /\ aiOutcome' =
               Thrown([type |-> "ConfigurationError",
                       message |-> "Failed to load AI service configuration"])
          /\ apc' = "settled"
          /\ UNCHANGED <<probeTimer, generationTimer, caught>>
     ELSE IF aiProvider \in LocalProviders
     THEN /\ probeTimer' = Armed(clock + ProbeTimeout)
          /\ apc' = "probing"
          /\ UNCHANGED <<generationTimer, caught, aiOutcome>>
     ELSE /\ BeginGeneration
          /\ UNCHANGED probeTimer
  /\ UNCHANGED <<aiProvider, aiConfigLoads, clock>>
  /\ UNCHANGED otherThanAI

\* fetch resolves: clearTimeout, then the generation up to its await
ProbeSucceeds ==
  /\ apc = "probing"
  /\ probeTimer.state = "armed"
  /\ probeTimer' = Cleared(probeTimer)
  /\ BeginGeneration
  /\ UNCHANGED <<aiProvider, aiConfigLoads, clock>>
  /\ UNCHANGED otherThanAI

\* fetch rejects by itself (nothing listens): the mock analysis is returned
ProbeFails ==
  /\ apc = "probing"
  /\ probeTimer.state = "armed"
  /\ aiOutcome' = ReturnedText("mock analysis")
  /\ apc' = "settled"
  /\ UNCHANGED <<aiProvider, aiConfigLoads, clock, probeTimer,
                 generationTimer, caught>>
  /\ UNCHANGED otherThanAI

\* the probe timer is due: controller.abort(); a fetch still pending
\* rejects and the mock analysis is returned
FireProbeTimer ==
  /\ probeTimer.state = "armed"
  /\ clock >= probeTimer.due
  /\ probeTimer' = Fired(probeTimer)
  /\ IF apc = "probing"
     THEN aiOutcome' = ReturnedText("mock analysis") /\ apc' = "settled"
     ELSE UNCHANGED <<aiOutcome, apc>>
  /\ UNCHANGED <<aiProvider, aiConfigLoads, clock, generationTimer, caught>>
  /\ UNCHANGED otherThanAI

\* generateText resolves: clearTimeout, return text
GenerationSucceeds ==
  /\ apc = "generating"
  /\ generationTimer.state = "armed"
  /\ generationTimer' = Cleared(generationTimer)
  /\ aiOutcome' = ReturnedText("analysis")
  /\ apc' = "settled"
  /\ UNCHANGED <<aiProvider, aiConfigLoads, clock, probeTimer, caught>>
  /\ UNCHANGED otherThanAI

\* generateText rejects by itself: the catch block
GenerationFails ==
  /\ apc = "generating"
  /\ generationTimer.state = "armed"
  /\ \E error \in ProviderErrors :
       /\ caught' = error
       /\ aiOutcome' = Thrown(CatchGeneration(error))
  /\ apc' = "settled"
  /\ UNCHANGED <<aiProvider, aiConfigLoads, clock, probeTimer,
                 generationTimer>>
  /\ UNCHANGED otherThanAI

\* the generation timer is due: controller.abort(); a generateText still
\* pending rejects with the abort error and the catch block runs
FireGenerationTimer ==
  /\ generationTimer.state = "armed"
  /\ clock >= generationTimer.due
  /\ generationTimer' = Fired(generationTimer)
  /\ IF apc = "generating"
     THEN /\ caught' = AbortError
          /\ aiOutcome' = Thrown(CatchGeneration(AbortError))
          /\ apc' = "settled"
     ELSE UNCHANGED <<caught, aiOutcome, apc>>
  /\ UNCHANGED <<aiProvider, aiConfigLoads, clock, probeTimer>>
  /\ UNCHANGED otherThanAI

TimerDue(timer) == timer.state = "armed" /\ clock >= timer.due

\* a second passes while a timer of the call is armed; a due timer fires
\* before more time passes
Tick ==
  /\ probeTimer.state = "armed" \/ generationTimer.state = "armed"
  /\ ~TimerDue(probeTimer)
  /\ ~TimerDue(generationTimer)
  /\ clock' = clock + 1
  /\ UNCHANGED <<aiProvider, aiConfigLoads, apc, probeTimer,
                 generationTimer, caught, aiOutcome>>
  /\ UNCHANGED otherThanAI

AIIdle ==
  /\ aiProvider = ""
  /\ aiConfigLoads = TRUE
  /\ apc = "idle"
  /\ clock = 0
  /\ probeTimer = Unarmed
  /\ generationTimer = Unarmed
  /\ caught = NoError
  /\ aiOutcome = NotSettled

(***************************************************************************)
(* HealthCommand.handle and analyzeFiles.  A source file is what happens   *)
(* when it is analysed: "ok"; "unreadable" (readFileSync throws);          *)
(* "unknown" (no language is detected); "analyzerThrows" (analyzeFile      *)
(* rejects); "scanFails" (scanForSecurity rejects, which the inner catch   *)
(* swallows).  promises[k] is the state of the async callback of file k:   *)
(* "waiting" before it is called, the await it is suspended at ("detect",  *)
(* "analyze", "scan"), or what it resolved with ("null", "analysis").      *)
(***************************************************************************)
ParallelBatchSize == 5

\* a JavaScript value: a boolean, or a promise that resolves to one
BooleanValue(b) == [type |-> "boolean", value |-> b]
PromiseOf(b) == [type |-> "promise", value |-> b]

\* the operand of !: an object is truthy
ToBoolean(v) == IF v.type = "promise" THEN TRUE ELSE v.value

HealthConfigs ==
  { [exists |-> FALSE, provider |-> "", baseURL |-> FALSE, apiKey |-> FALSE],
    [exists |-> TRUE, provider |-> "openai", baseURL |-> FALSE,
     apiKey |-> TRUE],
    [exists |-> TRUE, provider |-> "openai", baseURL |-> FALSE,
     apiKey |-> FALSE],
    [exists |-> TRUE, provider |-> "ollama", baseURL |-> TRUE,
     apiKey |-> FALSE],
    [exists |-> TRUE, provider |-> "ollama", baseURL |-> FALSE,
     apiKey |-> FALSE] }

\* ConfigManager.hasValidConfig: an async method
hasValidConfig(config) ==
  PromiseOf(IF ~config.exists THEN FALSE
            ELSE IF config.provider \in LocalProviders THEN config.baseURL
            ELSE config.apiKey)

HealthFileKinds ==
  <<"ok", "unreadable", "unknown", "analyzerThrows", "scanFails">>

MaxHealthFiles == 6

\* what discoverSourceFiles finds: n files, their kinds in turn
HealthFileLists ==
  {[k \in 1..n |-> HealthFileKinds[((k + shift) % Len(HealthFileKinds)) + 1]] :
     n \in 0..MaxHealthFiles, shift \in 0..(Len(HealthFileKinds) - 1)}

\* options.parallel ? 5 : 1
BatchSize(opts) == IF opts.parallel THEN ParallelBatchSize ELSE 1

\* the indices of files.slice(i, i + batchSize)
Batch(i, opts, n) ==
  {k \in 1..n : i < k /\ k <= i + BatchSize(opts)}

Settled(p) == p \in {"null", "analysis"}

BatchSettledAny(ps, batch) == \E k \in batch : Settled(ps[k])

\* Promise.all(batchPromises) resolves: no callback rejects
BatchSettled(ps, batch) == \A k \in batch : Settled(ps[k])

\* the callback of one file up to its first await
CallbackStarts(kind) == IF kind = "unreadable" THEN "null" ELSE "detect"

\* the callback of one file from the await it is suspended at to the next
CallbackResumes(kind, at, opts) ==
  IF at = "detect"
  THEN IF kind = "unknown" THEN "null" ELSE "analyze"
  ELSE IF at = "analyze"
  THEN IF kind = "analyzerThrows" THEN "null"
       ELSE IF opts.security THEN "scan" ELSE "analysis"
  ELSE "analysis"

RECURSIVE BatchResultsUnfiltered(_, _, _)
BatchResultsUnfiltered(ps, k, last) ==
  IF k > last THEN <<>>
  ELSE <<k>> \o BatchResultsUnfiltered(ps, k + 1, last)

\* batchResults.filter(Boolean), in the order of the batch
RECURSIVE BatchResults(_, _, _)
BatchResults(ps, k, last) ==
  IF k > last THEN <<>>
  ELSE (IF ps[k] = "analysis" THEN <<k>> ELSE <<>>)
       \o BatchResults(ps, k + 1, last)

HealthInit ==
  /\ hconfig \in HealthConfigs
  /\ hoptions \in [parallel : BOOLEAN, security : BOOLEAN]
  /\ globbed \in HealthFileLists
  /\ hpc = "start"
  /\ hintPrinted = FALSE
  /\ discoverCalled = FALSE
  /\ healthFiles = <<>>
  /\ batchStart = 0
  /\ promises = <<>>
  /\ analyses = <<>>

\* handle up to its first await: the configuration test, then the call of
\* discoverSourceFiles
Handle ==
  /\ hpc = "start"
  /\ IF ~ToBoolean(hasValidConfig(hconfig))
     THEN /\ hintPrinted' = TRUE
          /\ hpc' = "returned"
          /\ UNCHANGED discoverCalled
     ELSE /\ discoverCalled' = TRUE
          /\ hpc' = "discovering"
          /\ UNCHANGED hintPrinted
  /\ UNCHANGED <<hconfig, hoptions, globbed, healthFiles, batchStart,
                 promises, analyses>>
  /\ UNCHANGED otherThanHealth

\* discoverSourceFiles resolves; without files handle returns
Discovered ==
  /\ hpc = "discovering"
  /\ healthFiles' = globbed
  /\ promises' = [k \in 1..Len(globbed) |-> "waiting"]
  /\ hpc' = IF Len(globbed) = 0 THEN "returned" ELSE "batch"
  /\ UNCHANGED <<hconfig, hoptions, globbed, hintPrinted, discoverCalled,
                 batchStart, analyses>>
  /\ UNCHANGED otherThanHealth

\* one iteration of the loop up to await Promise.all: batch.map calls the
\* callback of every file of the batch
StartBatch ==
  /\ hpc = "batch"
  /\ promises' =
       [k \in 1..Len(healthFiles) |->
          IF k \in Batch(batchStart, hoptions, Len(healthFiles))
          THEN CallbackStarts(healthFiles[k])
          ELSE promises[k]]
  /\ hpc' = "awaiting"
  /\ UNCHANGED <<hconfig, hoptions, globbed, hintPrinted, discoverCalled,
                 healthFiles, batchStart, analyses>>
  /\ UNCHANGED otherThanHealth

\* the callback of one file resumes after its await
Resume ==
  /\ hpc = "awaiting"
  /\ \E k \in 1..Len(healthFiles) :
       /\ promises[k] \in {"detect", "analyze", "scan"}
       /\ promises' =
            [promises EXCEPT
               ![k] = CallbackResumes(healthFiles[k], promises[k], hoptions)]
  /\ UNCHANGED <<hconfig, hoptions, globbed, hpc, hintPrinted,
                 discoverCalled, healthFiles, batchStart, analyses>>
  /\ UNCHANGED otherThanHealth

\* Promise.all resolves: analyses.push(...), i += batchSize
FinishBatch ==
  /\ hpc = "awaiting"
  /\ BatchSettled(promises, Batch(batchStart, hoptions, Len(healthFiles)))
  /\ LET last == IF batchStart + BatchSize(hoptions) < Len(healthFiles)
                 THEN batchStart + BatchSize(hoptions)
                 ELSE Len(healthFiles)
     IN  analyses' = analyses \o BatchResults(promises, batchStart + 1, last)
  /\ batchStart' = batchStart + BatchSize(hoptions)
  /\ hpc' = IF batchStart + BatchSize(hoptions) < Len(healthFiles)
            THEN "batch" ELSE "report"
  /\ UNCHANGED <<hconfig, hoptions, globbed, hintPrinted, discoverCalled,
                 healthFiles, promises>>
  /\ UNCHANGED otherThanHealth

\* analyzeFiles returned: the report is generated and displayed
Report ==
  /\ hpc = "report"
  /\ hpc' = "returned"
  /\ UNCHANGED <<hconfig, hoptions, globbed, hintPrinted, discoverCalled,
                 healthFiles, batchStart, promises, analyses>>
  /\ UNCHANGED otherThanHealth

HealthIdle ==
  /\ hconfig = [exists |-> FALSE, provider |-> "", baseURL |-> FALSE,
                apiKey |-> FALSE]
  /\ hoptions = [parallel |-> FALSE, security |-> FALSE]
  /\ globbed = <<>>
  /\ hpc = "idle"
  /\ hintPrinted = FALSE
  /\ discoverCalled = FALSE
  /\ healthFiles = <<>>
  /\ batchStart = 0
  /\ promises = <<>>
  /\ analyses = <<>>

(***************************************************************************)
(* HealthCommand.generateRecommendations.  A FileAnalysis is what the      *)
(* rules read in it: whether its path names a test, its metrics (if any),  *)
(* whether an issue is critical and whether a diagnostic is an error.      *)
(***************************************************************************)
FileAnalysisOf(testPath, hasMetrics, cx, index, debt, critical, errors) ==
  [testPath |-> testPath, hasMetrics |-> hasMetrics, complexity |-> cx,
   maintainabilityIndex |-> index, technicalDebt |-> debt,
   critical |-> critical, errors |-> errors]

\* every combination of what the rules read, a file for which analyzeFile
\* gave no metrics, and a file without a non-empty line, whose
\* maintainabilityIndex is NaN
FileAnalysisKinds ==
  {FileAnalysisOf(t, TRUE, cx, Num(index), Num(debt), critical, errors) :
     t \in BOOLEAN, cx \in {5, 25}, index \in {80, 40}, debt \in {0, 200},
     critical \in BOOLEAN, errors \in BOOLEAN}
  \cup { FileAnalysisOf(TRUE, FALSE, 0, NaN, NaN, FALSE, TRUE),
         FileAnalysisOf(FALSE, TRUE, 1, NaN, Num(0), FALSE, FALSE) }

MaxAnalyses == 2

FileAnalysisLists ==
  UNION {[1..n -> FileAnalysisKinds] : n \in 0..MaxAnalyses}

\* fileAnalyses.filter(...).length for each of the rules
HighComplexity(f) == f.hasMetrics /\ f.complexity > 20
LowMaintainability(f) ==
  f.hasMetrics /\ Lt(f.maintainabilityIndex, Num(50))

HasCritical(f) == f.critical
HasErrors(f) == f.errors
IsTestPath(f) == f.testPath

\* file.analysis.metrics?.technicalDebt || 0
DebtOrZero(f) ==
  IF f.hasMetrics /\ IsNum(f.technicalDebt) THEN f.technicalDebt ELSE Num(0)

RECURSIVE SumDebt(_)
SumDebt(fs) ==
  IF fs = <<>> THEN Num(0) ELSE Add(DebtOrZero(fs[1]), SumDebt(Tail(fs)))

\* HealthCommand.estimateTestCoverage
HealthEstimateTestCoverage(fs) ==
  LET testFiles == Len(SelectSeq(fs, IsTestPath))
      sourceFiles == Len(fs) - testFiles
  IN  IF sourceFiles = 0 THEN Num(0)
      ELSE MathMin(Num(100), Frac(250 * testFiles, sourceFiles))

Recommendation(rule, count) == [rule |-> rule, count |-> count]

Healthy == Recommendation("healthy", 0)

\* recommendations.push(...) when count > 0
PushIfAny(recs, rule, count) ==
  IF count > 0 THEN Append(recs, Recommendation(rule, count)) ELSE recs

PushIf(recs, rule, condition) ==
  IF condition THEN Append(recs, Recommendation(rule, 0)) ELSE recs

OrHealthyAlways(recs) == Append(recs, Healthy)

\* if (recommendations.length === 0) push the healthy message
OrHealthy(recs) == IF Len(recs) = 0 THEN <<Healthy>> ELSE recs

HealthGenerateRecommendations(fs) ==
  LET r1 == PushIfAny(<<>>, "complexity",
                      Len(SelectSeq(fs, HighComplexity)))
      r2 == PushIfAny(r1, "maintainability",
                      Len(SelectSeq(fs, LowMaintainability)))
      r3 == PushIfAny(r2, "security",
                      Len(SelectSeq(fs, HasCritical)))
      avgDebt == IF Len(fs) = 0 THEN Div(0, 0)
                 ELSE Scale(SumDebt(fs), 1, Len(fs))
      r4 == PushIf(r3, "debt", Lt(Num(60), avgDebt))
      r5 == PushIf(r4, "coverage",
                   Lt(HealthEstimateTestCoverage(fs), Num(60)))
      r6 == PushIfAny(r5, "errors", Len(SelectSeq(fs, HasErrors)))
  IN  OrHealthy(r6)

NoRecommendations == [done |-> FALSE, recommendations |-> <<>>]

RecommendInit ==
  /\ fileAnalyses \in FileAnalysisLists
  /\ healthRecommendations = NoRecommendations

GenerateRecommendations ==
  /\ ~healthRecommendations.done
  /\ healthRecommendations' =
       [done |-> TRUE,
        recommendations |-> HealthGenerateRecommendations(fileAnalyses)]
  /\ UNCHANGED fileAnalyses
  /\ UNCHANGED otherThanRecommend

RecommendIdle ==
  /\ fileAnalyses = <<>>
  /\ healthRecommendations = NoRecommendations

(***************************************************************************)
(* Specifications                                                          *)
(***************************************************************************)
ScoreIdle ==
  /\ scoreInput = AnalysisOf(0, FALSE, 0, NaN, 0)
  /\ scoreOutput = NotScored

QualityIdle ==
  /\ target = [kind |-> "missing", glob |-> <<>>, extraTests |-> 0,
               layout |-> NoDocs]
  /\ options = [maxFiles |-> 0]
  /\ qpc = "idle"
  /\ files = <<>>
  /\ filesToAnalyze = <<>>
  /\ idx = 0
  /\ fileQualities = <<>>
  /\ totalLines = 0
  /\ totalIssues = 0
  /\ totalComplexity = 0
  /\ averageScore = NaN
  /\ codeHealth = NaN
  /\ maintainability = 0
  /\ complexity = 0
  /\ testCoverage = NaN
  /\ documentation = 0
  /\ security = 0
  /\ aiCall = NoCall
  /\ recommendations = <<>>
  /\ result = NoReport
  /\ thrown = ""

\* calculateFileScore on every input
SpecScoreInit == ScoreInit /\ QualityIdle /\ DetectIdle /\ ProjectIdle
                 /\ MetricsIdle /\ DuplicatesIdle /\ AIIdle /\ HealthIdle
                 /\ RecommendIdle
SpecScoreNext == ScoreFile
SpecScore == SpecScoreInit /\ [][SpecScoreNext]_vars

\* one run of analyzeQuality
SpecQualityInit == QualityInit /\ ScoreIdle /\ DetectIdle /\ ProjectIdle
                   /\ MetricsIdle /\ DuplicatesIdle /\ AIIdle /\ HealthIdle
                   /\ RecommendIdle
SpecQualityNext == ScanFiles \/ AnalyzeOneFile \/ Summarize \/ Recommend
SpecQuality == SpecQualityInit /\ [][SpecQualityNext]_vars

\* detectLanguage on every path and content
SpecDetectInit == DetectInit /\ ScoreIdle /\ QualityIdle /\ ProjectIdle
                  /\ MetricsIdle /\ DuplicatesIdle /\ AIIdle /\ HealthIdle
                  /\ RecommendIdle
SpecDetectNext == DetectLanguage
SpecDetect == SpecDetectInit /\ [][SpecDetectNext]_vars

\* one run of detectProjectLanguages
SpecProjectInit == ProjectInit /\ ScoreIdle /\ QualityIdle /\ DetectIdle
                   /\ MetricsIdle /\ DuplicatesIdle /\ AIIdle /\ HealthIdle
                   /\ RecommendIdle
SpecProjectNext == StartScan \/ VisitEntry \/ ReturnProfile
SpecProject == SpecProjectInit /\ [][SpecProjectNext]_vars

\* calculateMetrics on every content
SpecMetricsInit == MetricsInit /\ ScoreIdle /\ QualityIdle /\ DetectIdle
                   /\ ProjectIdle /\ DuplicatesIdle /\ AIIdle /\ HealthIdle
                   /\ RecommendIdle
SpecMetricsNext == CalculateMetrics
SpecMetrics == SpecMetricsInit /\ [][SpecMetricsNext]_vars

\* findDuplicateLines on every sequence of lines
SpecDuplicatesInit == DuplicatesInit /\ ScoreIdle /\ QualityIdle
                      /\ DetectIdle /\ ProjectIdle /\ MetricsIdle /\ AIIdle
                      /\ HealthIdle /\ RecommendIdle
SpecDuplicatesNext == FindDuplicateLines
SpecDuplicates == SpecDuplicatesInit /\ [][SpecDuplicatesNext]_vars

\* one call of AIService.analyzeCode
SpecAIInit == AIInit /\ ScoreIdle /\ QualityIdle /\ DetectIdle
              /\ ProjectIdle /\ MetricsIdle /\ DuplicatesIdle /\ HealthIdle
              /\ RecommendIdle
SpecAINext == EnsureConfig \/ ProbeSucceeds \/ ProbeFails \/ FireProbeTimer
              \/ GenerationSucceeds \/ GenerationFails
              \/ FireGenerationTimer \/ Tick
SpecAI == SpecAIInit /\ [][SpecAINext]_vars

\* the event loop: time passes and a due timer runs its callback
SpecAILive == SpecAI /\ WF_vars(Tick) /\ WF_vars(FireProbeTimer)
              /\ WF_vars(FireGenerationTimer)

\* one run of HealthCommand.handle
SpecHealthInit == HealthInit /\ ScoreIdle /\ QualityIdle /\ DetectIdle
                  /\ ProjectIdle /\ MetricsIdle /\ DuplicatesIdle /\ AIIdle
                  /\ RecommendIdle
SpecHealthNext == Handle \/ Discovered \/ StartBatch \/ Resume
                  \/ FinishBatch \/ Report
SpecHealth == SpecHealthInit /\ [][SpecHealthNext]_vars

\* HealthCommand.generateRecommendations on every list of analyses
SpecRecommendInit == RecommendInit /\ ScoreIdle /\ QualityIdle /\ DetectIdle
                     /\ ProjectIdle /\ MetricsIdle /\ DuplicatesIdle
                     /\ AIIdle /\ HealthIdle
SpecRecommendNext == GenerateRecommendations
SpecRecommend == SpecRecommendInit /\ [][SpecRecommendNext]_vars

Init == SpecScoreInit \/ SpecQualityInit \/ SpecDetectInit
        \/ SpecProjectInit \/ SpecMetricsInit \/ SpecDuplicatesInit
        \/ SpecAIInit \/ SpecHealthInit \/ SpecRecommendInit
Next == SpecScoreNext \/ SpecQualityNext \/ SpecDetectNext
        \/ SpecProjectNext \/ SpecMetricsNext \/ SpecDuplicatesNext
        \/ SpecAINext \/ SpecHealthNext \/ SpecRecommendNext
Spec == Init /\ [][Next]_vars

(***************************************************************************)
(* Claims about the quality scoring engine                                 *)
(***************************************************************************)
Clamp(x, lo, hi) == IF x < lo THEN lo ELSE IF x > hi THEN hi ELSE x

C1_ComplexityBand(r) ==
  IF ~r.hasMetrics THEN 0
  ELSE IF r.metrics.complexity > 20 THEN 20
  ELSE IF r.metrics.complexity > 10 /\ r.metrics.complexity <= 20 THEN 10
  ELSE 0

C1_MaintainabilityBand(r) ==
  IF ~r.hasMetrics THEN 0
  ELSE IF Lt(r.metrics.maintainabilityIndex, Num(50)) THEN 15
  ELSE IF Le(Num(50), r.metrics.maintainabilityIndex)
          /\ Lt(r.metrics.maintainabilityIndex, Num(70)) THEN 5
  ELSE 0

\* C1: calculateFileScore returns clamp(100 - 5*D - C - M, 0, 100), with C
\* and M one band each (0 without metrics), and the result is in [0,100].
C1_FileScoreIsClampedFormula ==
  scoreOutput.done =>
    /\ scoreOutput.score =
         Clamp(100 - 5 * scoreInput.diagnostics
                   - C1_ComplexityBand(scoreInput)
                   - C1_MaintainabilityBand(scoreInput), 0, 100)
    /\ scoreOutput.score \in 0..100

\* C1 witness: a scored result in the top band of both metrics
C1_Witness ==
  /\ scoreOutput.done
  /\ scoreInput.hasMetrics
  /\ scoreInput.metrics.complexity > 20
  /\ Lt(scoreInput.metrics.maintainabilityIndex, Num(50))
  /\ scoreInput.diagnostics = 3
  /\ scoreOutput.score = 50

C2_ComponentsInRange ==
  /\ Le(Num(0), averageScore) /\ Le(averageScore, Num(100))
  /\ Le(Num(0), result.codeHealth) /\ Le(result.codeHealth, Num(100))
  /\ result.maintainability \in 0..100
  /\ result.complexity \in 0..100
  /\ Le(Num(0), result.testCoverage) /\ Le(result.testCoverage, Num(100))
  /\ result.documentation \in 0..100
  /\ result.security \in 0..100

\* 100 times the weighted sum of the seven components
C2_Weighted100 ==
  Add(Scale(averageScore, 30, 1),
  Add(Scale(result.codeHealth, 20, 1),
  Add(Scale(result.testCoverage, 10, 1),
      Num(15 * result.maintainability + 15 * result.complexity
          + 5 * result.documentation + 5 * result.security))))

\* C2: overallScore is the weighted sum of the seven components (weights
\* 0.30, 0.20, 0.15, 0.15, 0.10, 0.05, 0.05, which sum to 1) rounded to the
\* nearest integer, and is an integer in [0,100] when the components are.
C2_OverallIsRoundedWeightedSum ==
  (qpc = "done" /\ C2_ComponentsInRange) =>
    LET o == result.overallScore
        w == C2_Weighted100
    IN  /\ 30 + 20 + 15 + 15 + 10 + 5 + 5 = 100
        /\ IsNum(o) /\ o.den = 1 /\ o.num \in 0..100
        \* o - 1/2 <= w/100 < o + 1/2
        /\ (200 * o.num - 100) * w.den <= 2 * w.num
        /\ 2 * w.num < (200 * o.num + 100) * w.den

\* C2 witness: a report whose weighted sum is not an integer and rounds up
C2_Witness ==
  /\ qpc = "done"
  /\ C2_ComponentsInRange
  /\ 100 * result.overallScore.num * C2_Weighted100.den > C2_Weighted100.num

\* C3: codeHealth = max(0, 100 - 10*totalIssues/totalFiles) with totalFiles
\* the number of files analysed successfully.
C3_CodeHealthOverAnalysedFiles ==
  (qpc = "done" /\ Len(result.files) > 0) =>
    result.codeHealth =
      MathMax(Num(0),
              Add(Num(100), Scale(Frac(totalIssues, Len(result.files)), -10, 1)))

\* C4: every numeric field of a returned report is a defined number within
\* its range, also when every discovered file failed its analysis.
C4_ReportNumbersDefined ==
  qpc = "done" =>
    /\ IsNum(averageScore)
    /\ IsNum(result.testCoverage)
    /\ IsNum(result.overallScore)
    /\ C2_ComponentsInRange

EmptyDirectory == target.kind = "directory" /\ target.glob = <<>>

AnalysedPaths ==
  {k \in 1..Len(filesToAnalyze) : filesToAnalyze[k].file.analysis.ok}

\* C6: the report's files are the successfully analysed files, each once,
\* in non-decreasing order of score.
C6_FilesSortedAscending ==
  qpc = "done" =>
    LET fs == result.files
    IN  /\ \A i, j \in 1..Len(fs) : i < j => fs[i].score <= fs[j].score
        /\ {fs[k].path : k \in 1..Len(fs)} = AnalysedPaths
        /\ Len(fs) = Cardinality(AnalysedPaths)
        /\ \A k \in 1..Len(fs) :
             fs[k].score = calculateFileScore(files[fs[k].path].file.analysis.result)

\* C6 witness: two analysed files were discovered worst-last and are
\* reported worst-first
C6_Witness ==
  /\ qpc = "done"
  /\ Len(result.files) >= 2
  /\ result.files[1].path > result.files[2].path
  /\ result.files[1].score < result.files[2].score

\* the AI collaborator failed: the configuration did not load, a local
\* provider was unreachable, or the generation threw or timed out
AIFailed(b) ==
  \/ ~b.configOk
  \/ b.provider \in LocalProviders /\ ~b.probeOk
  \/ b.generate.kind \in {"abort", "error"}

\* C7: after any AI failure generateRecommendations returns the fixed,
\* non-empty fallback list.
C7_FallbackAfterAIFailure ==
  (qpc = "done" /\ AIFailed(aiCall)) =>
    /\ recommendations = FallbackRecommendations
    /\ recommendations # <<>>

(***************************************************************************)
(* Claims about the language detector                                      *)
(***************************************************************************)
HasSupportedExtension ==
  Join(ToLowerCase(ExtName(filePath))) \in DOMAIN LANGUAGE_MAPPINGS

MappedLanguage == LANGUAGE_MAPPINGS[Join(ToLowerCase(ExtName(filePath)))]

\* C8: a path whose extension, compared case-insensitively, is supported is
\* classified as the language mapped to it with confidence >= 0.8, whatever
\* the content argument is.
C8_ExtensionFloor ==
  (detection.done /\ HasSupportedExtension) =>
    /\ detection.result.language = MappedLanguage
    /\ Le(Frac(8, 10), detection.result.confidence)

\* C8 witness: an upper-case extension with content that matches nothing
C8_Witness ==
  /\ detection.done
  /\ filePath = <<"a", "p", "p", ".", "P", "Y">>
  /\ content.kind = "text"
  /\ DOMAIN content.occ = {}
  /\ detection.result.language = "python"

\* C9: confidence is within [0,1]; without a supported extension it never
\* exceeds 0.99 and a content-derived confidence below 0.3 gives language
\* null.
C9_ConfidenceBounds ==
  detection.done =>
    /\ Le(Num(0), detection.result.confidence)
    /\ Le(detection.result.confidence, Num(1))
    /\ detection.ran /\ Lt(detection.contentResult.confidence, Frac(3, 10))
         => detection.contentResult.language = "null"
    /\ ~HasSupportedExtension =>
         /\ Le(detection.result.confidence, Frac(99, 100))
         /\ Lt(detection.contentResult.confidence, Frac(3, 10))
              => detection.result.language = "null"

\* C9 witness: no supported extension, and content whose signals give a
\* positive confidence below 0.3
C9_Witness ==
  /\ detection.done
  /\ ~HasSupportedExtension
  /\ Lt(Num(0), detection.contentResult.confidence)
  /\ Lt(detection.contentResult.confidence, Frac(3, 10))
  /\ detection.result.language = "null"

\* the content's signals point to another language than the extension's
ContentDisagrees ==
  /\ detection.ran
  /\ detection.contentResult.detectedLanguage \notin {"null", MappedLanguage}

\* C10: when the extension is supported and the content points to another
\* language, the result is the extension's language with confidence exactly
\* 0.8.
C10_ExtensionWinsOnDisagreement ==
  (detection.done /\ HasSupportedExtension /\ ContentDisagrees) =>
    /\ detection.result.language = MappedLanguage
    /\ detection.result.confidence = Frac(8, 10)

\* C10 witness: a React component stored in a .PY file
C10_Witness ==
  /\ detection.done
  /\ filePath = <<"a", "p", "p", ".", "P", "Y">>
  /\ content = ReactComponent
  /\ ContentDisagrees
  /\ detection.result.language = "python"

\* the raw pattern score of a language as the number of occurrences of each
\* of its signature patterns gives it: the mean of min(occurrences / 10, 1)
RECURSIVE C11_SumOccurrences(_, _)
C11_SumOccurrences(c, patterns) ==
  IF patterns = <<>> THEN Num(0)
  ELSE Add(MathMin(Frac(Occurrences(c, patterns[1].re), 10), Num(1)),
           C11_SumOccurrences(c, Tail(patterns)))

C11_RawScore(c, language) ==
  LET patterns == LANGUAGE_PATTERNS[language]
      sum == C11_SumOccurrences(c, patterns)
  IN  Frac(sum.num, sum.den * Len(patterns))

\* language alone has the highest raw score, and that score is positive
C11_HighestRawScore(c, language) ==
  /\ Lt(Num(0), C11_RawScore(c, language))
  /\ \A k \in 1..Len(Languages) :
       Languages[k] # language
         => Lt(C11_RawScore(c, Languages[k]), C11_RawScore(c, language))

\* min(0.8 * rawScore, 0.95)
C11_ContentConfidence(c, language) ==
  MathMin(Scale(C11_RawScore(c, language), 8, 10), Frac(95, 100))

\* C11: without a supported extension, content whose highest raw score
\* belongs to one language with min(0.8 * rawScore, 0.95) above the 0.3
\* threshold is classified as that language with at least that confidence;
\* at raw score 1.0 the confidence is at least 0.8.
C11_ContentLanguageAdopted ==
  (detection.done /\ ~HasSupportedExtension /\ content.kind = "text") =>
    \A k \in 1..Len(Languages) :
      LET language == Languages[k]
      IN  (/\ C11_HighestRawScore(content, language)
           /\ Lt(MinimumConfidence, C11_ContentConfidence(content, language)))
          => /\ detection.result.language = language
             /\ Le(C11_ContentConfidence(content, language),
                   detection.result.confidence)
             /\ C11_RawScore(content, language) = Num(1)
                  => Le(Frac(8, 10), detection.result.confidence)

\* C12: with a supported extension and content whose detected language is
\* the extension's, the confidence is min(1.0, 0.8 + 0.2) = 1.0.
C12_AgreementBoost ==
  (detection.done /\ HasSupportedExtension /\ content.kind = "text"
     /\ C11_HighestRawScore(content, MappedLanguage)
     /\ Lt(MinimumConfidence, C11_ContentConfidence(content, MappedLanguage)))
  => /\ detection.result.language = MappedLanguage
     /\ detection.result.confidence = Num(1)

\* file names matching *.spec.(js|ts|jsx|tsx) and test_*.py
C13_SpecName ==
  \E e \in {<<"j", "s">>, <<"t", "s">>, <<"j", "s", "x">>, <<"t", "s", "x">>} :
    EndsWith(filePath, <<".", "s", "p", "e", "c", ".">> \o e)

C13_PytestName ==
  /\ StartsAt(filePath, 1, <<"t", "e", "s", "t", "_">>)
  /\ EndsWith(filePath, <<".", "p", "y">>)

\* C13: a *.spec.(js|ts|jsx|tsx) file name puts jest, and a test_*.py file
\* name puts pytest, into frameworks and testFrameworks, whatever the
\* content argument is.
C13_FileNameFrameworksAlways ==
  detection.done =>
    /\ C13_SpecName =>
         /\ "jest" \in detection.result.frameworks
         /\ "jest" \in detection.result.testFrameworks
    /\ C13_PytestName =>
         /\ "pytest" \in detection.result.frameworks
         /\ "pytest" \in detection.result.testFrameworks

(***************************************************************************)
(* Claims about detectProjectLanguages                                     *)
(***************************************************************************)
\* the language a supported file's extension maps to
C14_LanguageOf(entry) == LANGUAGE_MAPPINGS[Join(ToLowerCase(ExtName(entry.name)))]

\* the readable supported files of a tree that lie outside the skipped
\* directories and outside the directories that cannot be read
RECURSIVE C14_ReadableFiles(_)
C14_ReadableFiles(entries) ==
  IF entries = <<>> THEN <<>>
  ELSE LET entry == Head(entries)
           here == IF entry.kind = "file"
                   THEN IF isSupported(entry.name) /\ entry.readable
                        THEN <<entry>> ELSE <<>>
                   ELSE IF entry.dirName \in SkippedDirectories
                           \/ ~entry.readable
                        THEN <<>>
                        ELSE C14_ReadableFiles(entry.entries)
       IN  here \o C14_ReadableFiles(Tail(entries))

C14_FilesOf(fs, language) ==
  Len(SelectSeq(fs, LAMBDA f : C14_LanguageOf(f) = language))

\* C14: an unreadable file or subdirectory is skipped alone: every readable
\* supported file outside the skipped directories is counted under its
\* language, in whatever order the entries come.
C14_OnlyUnreadableEntrySkipped ==
  (ppc = "done" /\ project.state = "ok") =>
    \A k \in 1..Len(Languages) :
      CountOf(profile.languages, Languages[k])
        = C14_FilesOf(C14_ReadableFiles(project.entries), Languages[k])

\* the supported files the scan comes to, in order, and whether a readdir
\* failure ended it
RECURSIVE C15_Walk(_)
C15_Walk(entries) ==
  IF entries = <<>> THEN [files |-> <<>>, aborted |-> FALSE]
  ELSE LET entry == Head(entries)
       IN  IF entry.kind = "dir" /\ entry.dirName \notin SkippedDirectories
              /\ ~entry.readable
           THEN [files |-> <<>>, aborted |-> TRUE]
           ELSE LET here == IF entry.kind = "file"
                            THEN [files |-> IF isSupported(entry.name)
                                            THEN <<entry>> ELSE <<>>,
                                  aborted |-> FALSE]
                            ELSE IF entry.dirName \in SkippedDirectories
                            THEN [files |-> <<>>, aborted |-> FALSE]
                            ELSE C15_Walk(entry.entries)
                    rest == C15_Walk(Tail(entries))
                IN  IF here.aborted THEN here
                    ELSE [files |-> here.files \o rest.files,
                          aborted |-> rest.aborted]

C15_CountedFiles ==
  IF project.state = "ok" THEN C15_Walk(project.entries).files ELSE <<>>

\* a counted file that was read and yielded a language
C15_Classified(entry) ==
  /\ entry.readable
  /\ detectLanguage(entry.name, entry.content).result.language # "null"

RECURSIVE C15_SumCounts(_)
C15_SumCounts(counts) ==
  IF counts = <<>> THEN 0 ELSE counts[1].count + C15_SumCounts(Tail(counts))

\* C15: the language counts sum to at most totalFiles, with equality exactly
\* when every counted file was read and classified; totalFiles counts every
\* supported file the scan came to, the language counts only the classified.
C15_LanguagesWithinTotal ==
  ppc = "done" =>
    LET sum == C15_SumCounts(profile.languages)
    IN  /\ sum <= profile.totalFiles
        /\ profile.totalFiles = Len(C15_CountedFiles)
        /\ sum = Len(SelectSeq(C15_CountedFiles, C15_Classified))
        /\ sum = profile.totalFiles
             <=> \A k \in 1..Len(C15_CountedFiles) :
                   C15_Classified(C15_CountedFiles[k])

\* C15 witness: a profile with an unreadable supported file and a classified one
C15_Witness ==
  /\ ppc = "done"
  /\ profile.totalFiles = 2
  /\ C15_SumCounts(profile.languages) = 1
  /\ \E k \in 1..Len(project.entries) : project.entries[k] = UnreadablePyFile

\* the place of the first classified file of a language among the counted
\* files (0 if there is none)
C16_FirstSeen(language) ==
  LET fs == SelectSeq(C15_CountedFiles, C15_Classified)
      at == {k \in 1..Len(fs) : C14_LanguageOf(fs[k]) = language}
  IN  IF at = {} THEN 0 ELSE CHOOSE k \in at : \A j \in at : k <= j

\* C16: primaryLanguage has a maximal count (null exactly when no language
\* was counted), and among the languages with that count it is the one
\* encountered first.
C16_PrimaryIsFirstMaximum ==
  ppc = "done" =>
    LET counts == profile.languages
        p == profile.primaryLanguage
    IN  /\ p = "null" <=> counts = <<>>
        /\ p # "null" =>
             /\ CountOf(counts, p) > 0
             /\ \A k \in 1..Len(counts) :
                  /\ counts[k].count <= CountOf(counts, p)
                  /\ (counts[k].count = CountOf(counts, p)
                        /\ counts[k].language # p)
                     => C16_FirstSeen(p) < C16_FirstSeen(counts[k].language)

\* C16 witness: python and typescript tie, python was encountered first
C16_Witness ==
  /\ ppc = "done"
  /\ project.entries = <<PyFile, TsFile, UnreadablePyFile>>
  /\ CountOf(profile.languages, "python") = 1
  /\ CountOf(profile.languages, "typescript") = 1
  /\ profile.primaryLanguage = "python"

\* C17: when the root does not exist or cannot be read, the call ends by
\* raising an error, not by returning a profile.
C17_RootFailureRaises ==
  (project.state # "ok" /\ ppc \in {"done", "threw"}) =>
    /\ ppc = "threw"
    /\ projectThrown # ""

(***************************************************************************)
(* Claims about the code metrics                                           *)
(***************************************************************************)
\* the branching keywords of a language
C18_Keywords(language) ==
  IF language = "python"
  THEN {"if", "elif", "else", "for", "while", "try", "except"}
  ELSE {"if", "else", "for", "while", "switch", "catch"}

RECURSIVE C18_SumWords(_, _)
C18_SumWords(words, keywords) ==
  IF keywords = {} THEN 0
  ELSE LET k == CHOOSE k \in keywords : TRUE
       IN  (IF k \in DOMAIN words THEN words[k] ELSE 0)
           + C18_SumWords(words, keywords \ {k})

\* C18: complexity is 1 plus the number of occurrences of the language's
\* branching keywords; 15 if statements and nothing else give 16.
C18_ComplexityCountsKeywords ==
  metricsOutput.done =>
    metricsOutput.metrics.complexity
      = 1 + C18_SumWords(metricsInput.words,
                         C18_Keywords(metricsInput.language))

\* max(0, x) on integers
C19_AtLeastZero(x) == IF x < 0 THEN 0 ELSE x

\* C19: technicalDebt = max(0, 5 * (complexity - 10))
\* + max(0, 0.1 * (linesOfCode - 200)), each term clamped on its own.
C19_DebtClampsEachTerm ==
  metricsOutput.done =>
    LET m == metricsOutput.metrics
    IN  m.technicalDebt
          = Add(Num(C19_AtLeastZero(5 * (m.complexity - 10))),
                Frac(C19_AtLeastZero(m.linesOfCode - 200), 10))

\* C20: maintainabilityIndex is a defined number in [0,100], and equals
\* clamp(100 - 2 * complexity - 5 * ln(linesOfCode)
\*       + 10 * commentLines / linesOfCode, 0, 100).
C20_MaintainabilityDefined ==
  metricsOutput.done =>
    LET m == metricsOutput.metrics
        mi == m.maintainabilityIndex
        commentLines == countCommentLines(metricsInput, metricsInput.language)
    IN  /\ IsNum(mi)
        /\ Le(Num(0), mi) /\ Le(mi, Num(100))
        /\ m.linesOfCode > 0 =>
             LET index == Add(Add(Num(100 - 2 * m.complexity),
                                  Scale(MathLog(m.linesOfCode), -5, 1)),
                              Frac(10 * commentLines, m.linesOfCode))
             IN  mi = IF Lt(index, Num(0)) THEN Num(0)
                      ELSE IF Lt(Num(100), index) THEN Num(100)
                      ELSE index

(***************************************************************************)
(* Claims about the security sub-score                                     *)
(***************************************************************************)
\* the risky-pattern occurrences of one readable file: eval( and innerHTML
\* uses, secret-like words, the password word of an assignment, and http://
\* links when no localhost is named
C21_OccurrencesIn(f) ==
  IF ~f.readable THEN 0
  ELSE f.occ["eval("] + f.occ["innerHTML"]
       + (IF f.occ["="] > 0 THEN f.occ["password"] ELSE 0)
       + f.occ["api_key"] + f.occ["secret"]
       + (IF f.occ["localhost"] = 0 THEN f.occ["http://"] ELSE 0)

RECURSIVE C21_Occurrences(_, _)
C21_Occurrences(fs, n) ==
  IF n = 0 THEN 0
  ELSE C21_OccurrencesIn(fs[n].file) + C21_Occurrences(fs, n - 1)

\* C21: the security sub-score is max(0, 100 - 15*N), N the number of
\* risky-pattern occurrences across the sampled files.
C21_SecurityCountsOccurrences ==
  qpc \in {"recommend", "done"} =>
    security =
      Clamp(100 - 15 * C21_Occurrences(files,
                         Len(Slice(files, SecuritySampleSize))), 0, 100)

\* C26: each signature pattern contributes min(n/10, 1) for its n
\* occurrences in the content and a language's raw score is the sum of the
\* contributions over its pattern count: within [0,1], and 1.0 when every
\* pattern of the language occurs at least 10 times.
C26_RawScoreCountsOccurrences ==
  (detection.done /\ detection.ran) =>
    \A k \in 1..Len(Languages) :
      LET language == Languages[k]
          patterns == LANGUAGE_PATTERNS[language]
          score == LanguageScore(OrEmpty(content), language)
      IN  /\ score = C11_RawScore(OrEmpty(content), language)
          /\ Le(Num(0), score) /\ Le(score, Num(1))
          /\ (\A j \in 1..Len(patterns) :
                Occurrences(OrEmpty(content), patterns[j].re) >= 10)
               => score = Num(1)

(***************************************************************************)
(* Claims about findDuplicateLines                                         *)
(***************************************************************************)
\* the number of lines whose trimmed text is that of kind
C27_Count(lines, kind) ==
  Cardinality({k \in 1..Len(lines) : lines[k].kind = kind})

RECURSIVE C27_SumRepeated(_, _)
C27_SumRepeated(lines, kinds) ==
  IF kinds = {} THEN 0
  ELSE LET kind == CHOOSE kind \in kinds : TRUE
           n == C27_Count(lines, kind)
       IN  (IF TrimmedLength[kind] > 10 /\ n >= 2 THEN n ELSE 0)
           + C27_SumRepeated(lines, kinds \ {kind})

\* C27: findDuplicateLines returns the sum, over every distinct trimmed line
\* longer than 10 characters that occurs n >= 2 times, of n; lines that
\* occur once and lines of trimmed length 10 or less add nothing.
C27_DuplicatesSumRepeats ==
  duplicatesOutput.done =>
    duplicatesOutput.duplicates = C27_SumRepeated(duplicatesInput, LineKinds)

\* C27 witness: one long line three times (once indented), a line of 10
\* characters twice: 2 + 1 = 3
C27_Witness ==
  /\ duplicatesOutput.done
  /\ duplicatesInput = <<Line("long", 0), Line("short", 0), Line("long", 2),
                         Line("short", 0), Line("long", 0)>>
  /\ duplicatesOutput.duplicates = 3

(***************************************************************************)
(* Claims about AIService.analyzeCode                                      *)
(***************************************************************************)
\* a generation is pending for at most GenerationTimeout seconds; an abort
\* reaches the caller as the timeout error; a text is returned only by a
\* generation that was not aborted
C22_TimedOutCallFails ==
  /\ apc = "generating" =>
       /\ generationTimer.state = "armed"
       /\ clock <= generationTimer.due
       /\ generationTimer.due - clock <= GenerationTimeout
  /\ caught = AbortError =>
       /\ generationTimer.state = "fired"
       /\ aiOutcome = Thrown(TimeoutError)
  /\ aiOutcome = ReturnedText("analysis") =>
       /\ generationTimer.state = "cleared"
       /\ clock <= generationTimer.due

\* C22: a generation that has not completed 30 seconds after it was started
\* is aborted and the caller receives the timeout error; the call never
\* stays pending for ever and a timed-out call never returns a text.
C22_GenerationTimesOut ==
  /\ []C22_TimedOutCallFails
  /\ (apc = "generating") ~> (apc = "settled")

\* C22 witness: the generation was still pending 30 seconds after its
\* start and the caller got the timeout error
C22_Witness ==
  /\ apc = "settled"
  /\ generationTimer.state = "fired"
  /\ clock = generationTimer.due
  /\ caught = AbortError
  /\ aiOutcome = Thrown(TimeoutError)

\* the class of an error: the first rule, in the order auth, rate-limit,
\* quota, network, that finds its text in the message; otherwise unknown
C23_Rules ==
  << [texts |-> {"API key"}, message |-> "Invalid or missing API key"],
     [texts |-> {"rate limit"}, message |-> "API rate limit exceeded"],
     [texts |-> {"quota"}, message |-> "API quota exceeded"],
     [texts |-> {"network", "ENOTFOUND"},
      message |-> "Network connection failed"] >>

C23_Matching(error) ==
  {k \in 1..Len(C23_Rules) : C23_Rules[k].texts \cap error.texts # {}}

C23_MessageOf(error) ==
  IF C23_Matching(error) = {} THEN "AI service error"
  ELSE C23_Rules[CHOOSE k \in C23_Matching(error) :
                   \A j \in C23_Matching(error) : k <= j].message

\* C23: every failure of the generation other than the timeout reaches the
\* caller as an AIServiceError of the class of the first matching rule; the
\* provider's own error never propagates.
C23_FailureIsClassified ==
  (apc = "settled" /\ caught # NoError /\ caught # AbortError) =>
    /\ aiOutcome.kind = "threw"
    /\ aiOutcome.error = AIServiceError(C23_MessageOf(caught))

\* C23 witness: a message that names both a quota and the network is
\* classified as a quota error
C23_Witness ==
  /\ apc = "settled"
  /\ caught = ErrorOf("Error", {"quota", "network"})
  /\ aiOutcome = Thrown(AIServiceError("API quota exceeded"))

\* C29: when the call has settled, neither the probe timer nor the
\* generation timer it armed is still pending.
C29_NoTimerLeftArmed ==
  apc = "settled" =>
    /\ probeTimer.state # "armed"
    /\ generationTimer.state # "armed"

(***************************************************************************)
(* Claims about HealthCommand                                              *)
(***************************************************************************)
\* the files whose callback is suspended at an await
C24_InFlight ==
  {k \in 1..Len(promises) : promises[k] \in {"detect", "analyze", "scan"}}

\* 5 when the parallel option is set, otherwise 1
C24_Width == IF hoptions.parallel THEN 5 ELSE 1

\* C24: batches run strictly one after another: while a file is in flight,
\* every file of the earlier batches has settled and no file of a later
\* batch has started, and at most batchSize files are in flight.
C24_BatchesAreSequential ==
  /\ Cardinality(C24_InFlight) <= C24_Width
  /\ \A k \in 1..Len(promises) :
       /\ k <= batchStart => promises[k] \in {"null", "analysis"}
       /\ k > batchStart + C24_Width => promises[k] = "waiting"
       /\ k \in C24_InFlight =>
            (batchStart < k /\ k <= batchStart + C24_Width)

\* C24 witness: the parallel option is set, the five files of the first
\* batch have settled and the sixth is in flight
C24_Witness ==
  /\ hoptions.parallel
  /\ Len(healthFiles) = 6
  /\ batchStart = 5
  /\ C24_InFlight = {6}

\* the files whose analysis succeeds
C25_Succeeds(k) ==
  healthFiles[k] \in {"ok", "scanFails"}

RECURSIVE C25_Successes(_, _)
C25_Successes(k, last) ==
  IF k > last THEN <<>>
  ELSE (IF C25_Succeeds(k) THEN <<k>> ELSE <<>>) \o C25_Successes(k + 1, last)

\* C25: analyzeFiles returns exactly the files whose analysis succeeded,
\* each once and in input order, whatever the batch width and the order of
\* completion; until a batch has settled the list holds the successes of
\* the earlier batches only.
C25_ResultsAreTheSuccesses ==
  /\ hpc \in {"report", "returned"} /\ discoverCalled =>
       analyses = C25_Successes(1, Len(healthFiles))
  /\ hpc \in {"batch", "awaiting"} =>
       analyses = C25_Successes(1, IF batchStart < Len(healthFiles)
                                   THEN batchStart ELSE Len(healthFiles))

\* C25 witness: six files in two parallel batches, of which the first, the
\* fifth and the sixth succeed
C25_Witness ==
  /\ hpc = "returned"
  /\ hoptions.parallel
  /\ healthFiles = <<"ok", "unreadable", "unknown", "analyzerThrows",
                     "scanFails", "ok">>
  /\ analyses = <<1, 5, 6>>

\* C30: when hasValidConfig() resolves to false, handle prints the hint and
\* returns before discoverSourceFiles is called.
C30_InvalidConfigStopsHandle ==
  (hpc \notin {"idle", "start"} /\ ~hasValidConfig(hconfig).value) =>
    /\ hintPrinted
    /\ ~discoverCalled

\* the rules of generateRecommendations that fire for a list of analyses
C28_Fired(fs) ==
  LET n == Len(fs)
      tests == Cardinality({k \in 1..n : fs[k].testPath})
      sources == n - tests
  IN  (IF \E k \in 1..n : fs[k].hasMetrics /\ fs[k].complexity > 20
       THEN {"complexity"} ELSE {})
      \cup (IF \E k \in 1..n : /\ fs[k].hasMetrics
                               /\ Lt(fs[k].maintainabilityIndex, Num(50))
            THEN {"maintainability"} ELSE {})
      \cup (IF \E k \in 1..n : fs[k].critical THEN {"security"} ELSE {})
      \cup (IF n > 0 /\ Lt(Num(60 * n), SumDebt(fs))
            THEN {"debt"} ELSE {})
      \cup (IF sources = 0 \/ 250 * tests < 60 * sources
            THEN {"coverage"} ELSE {})
      \cup (IF \E k \in 1..n : fs[k].errors THEN {"errors"} ELSE {})

C28_Rules(recs) == {recs[k].rule : k \in 1..Len(recs)}

\* every subset of the six rules is what fires for some list of analyses
C28_EverySubsetFires ==
  \A S \in SUBSET {"complexity", "maintainability", "security", "debt",
                   "coverage", "errors"} :
    \E fs \in FileAnalysisLists :
      C28_Rules(HealthGenerateRecommendations(fs)) \ {"healthy"} = S

\* C28: the six rules are evaluated independently, the list is never empty,
\* and the healthy message is returned exactly when no rule fires, never
\* together with a recommendation of a rule.
C28_RecommendationsNeverEmpty ==
  healthRecommendations.done =>
    LET recs == healthRecommendations.recommendations
        fired == C28_Fired(fileAnalyses)
    IN  /\ C28_EverySubsetFires
        /\ Len(recs) > 0
        /\ C28_Rules(recs) \ {"healthy"} = fired
        /\ Len(recs) = Cardinality(C28_Rules(recs))
        /\ "healthy" \in C28_Rules(recs) <=> fired = {}
        /\ "healthy" \in C28_Rules(recs) => recs = <<Healthy>>

\* C28 witness: all six rules fire together
C28_Witness ==
  /\ healthRecommendations.done
  /\ C28_Rules(healthRecommendations.recommendations)
       = {"complexity", "maintainability", "security", "debt", "coverage",
          "errors"}

\* the empty list of analyses: only the coverage rule fires
C28_EmptyListWitness ==
  /\ healthRecommendations.done
  /\ fileAnalyses = <<>>
  /\ healthRecommendations.recommendations
       = <<Recommendation("coverage", 0)>>

\* the healthy message alone
C28_HealthyWitness ==
  /\ healthRecommendations.done
  /\ healthRecommendations.recommendations = <<Healthy>>

====
